---- MODULE Spec2Model ----
(***************************************************************************)
(* A model of the investment-tracking MCP server: the connection pool and  *)
(* query executor of db.py, and the tools built on them.                   *)
(*                                                                         *)
(* Python values are tagged records, so that values of different Python    *)
(* types can sit in one parameter tuple: PyStr(s) holds a sequence of      *)
(* one-character strings, PyBool(b) a boolean, PyInt(n) an integer, and    *)
(* None is Python's None, which is also how psycopg2 returns SQL NULL.     *)
(***************************************************************************)
EXTENDS Integers, Sequences, FiniteSets, TLC

VARIABLES
    connection_pool,  \* db.connection_pool: NoPool or the pool's state
    store,            \* the relational store: one sequence of rows per table
    pc,               \* "ready": waiting for a call; "done": a call has ended
    request,          \* the call being served: tool name and arguments
    response,         \* what the call returned or raised
    statements,       \* the statements the call sent to the store, in order
    conn_ops          \* the call's operations on the pool and its connections

vars == <<connection_pool, store, pc, request, response, statements,
         conn_ops>>

----------------------------------------------------------------------------
(* Python values *)

None == [t |-> "none"]
PyStr(s) == [t |-> "str", v |-> s]
PyBool(b) == [t |-> "bool", v |-> b]
PyInt(n) == [t |-> "int", v |-> n]

\* A test that takes every value but None as present
IsNotNone(x) == x.t # "none"

\* Python truthiness, as used by "if ticker:", "if not result:", "x or 0"
Truthy(x) ==
    CASE x.t = "none" -> FALSE
      [] x.t = "str" -> Len(x.v) > 0
      [] x.t = "bool" -> x.v
      [] x.t = "int" -> x.v # 0
      [] x.t = "list" -> Len(x.v) > 0
      [] OTHER -> TRUE

----------------------------------------------------------------------------
(* db.py: the connection pool (psycopg2.pool.ThreadedConnectionPool) *)

min_conn == 1
max_conn == 5

NoPool == [state |-> "none"]

\* What the environment does to one statement: the stage at which it fails
\* ("none": it does not), and whether the failure leaves the connection closed.
NoFault == [at |-> "none", broken |-> FALSE]
Faults ==
    {NoFault} \cup
    [at : {"init", "getconn", "execute", "fetch", "commit"}, broken : BOOLEAN]

\* A connection id the pool does not hold yet
FreshConn(cp) ==
    CHOOSE c \in 1..(max_conn + 1) :
        /\ c \notin cp.used
        /\ \A i \in 1..Len(cp.idle) : cp.idle[i] # c
        /\ \A d \in 1..(c - 1) :
              d \in cp.used \/ \E i \in 1..Len(cp.idle) : cp.idle[i] = d

\* init_db_pool: a no-op when the pool exists; else the pool opens min_conn
\* connections, and a failure to connect leaves the global unset and raises
init_db_pool(cp, fault) ==
    IF cp.state # "none"
    THEN [cp |-> cp, raised |-> FALSE, err |-> ""]
    ELSE IF fault.at = "init"
    THEN [cp |-> cp, raised |-> TRUE, err |-> "could not connect to server"]
    ELSE [cp |-> [state |-> "open",
                  idle |-> [i \in 1..min_conn |-> i],
                  used |-> {}],
          raised |-> FALSE, err |-> ""]

\* connection_pool.getconn(): an idle connection, or a new one below max_conn
getconn(cp, fault) ==
    IF cp.idle # <<>>
    THEN [cp |-> [cp EXCEPT !.idle = SubSeq(cp.idle, 1, Len(cp.idle) - 1),
                            !.used = cp.used \cup {cp.idle[Len(cp.idle)]}],
          conn |-> cp.idle[Len(cp.idle)], raised |-> FALSE, err |-> ""]
    ELSE IF Cardinality(cp.used) = max_conn
    THEN [cp |-> cp, conn |-> 0, raised |-> TRUE,
          err |-> "connection pool exhausted"]
    ELSE IF fault.at = "getconn"
    THEN [cp |-> cp, conn |-> 0, raised |-> TRUE,
          err |-> "could not connect to server"]
    ELSE [cp |-> [cp EXCEPT !.used = cp.used \cup {FreshConn(cp)}],
          conn |-> FreshConn(cp), raised |-> FALSE, err |-> ""]

\* connection_pool.putconn(conn): an open connection goes back to the idle
\* list while that holds fewer than min_conn, else it is closed; either way
\* it is no longer checked out. A connection the pool did not hand out raises.
putconn(cp, conn, closed) ==
    IF conn \notin cp.used
    THEN [cp |-> cp, raised |-> TRUE, err |-> "trying to put unkeyed connection"]
    ELSE [cp |-> [cp EXCEPT !.idle = IF Len(cp.idle) < min_conn /\ ~closed
                                      THEN Append(cp.idle, conn)
                                      ELSE cp.idle,
                            !.used = cp.used \ {conn}],
          raised |-> FALSE, err |-> ""]

\* get_db_connection up to its yield: lazy initialisation, then getconn.
\* ops is the trace of operations on the pool and the connection.
EnterConnection(cp, fault) ==
    LET i == init_db_pool(cp, fault) IN
    IF i.raised
    THEN [cp |-> i.cp, conn |-> 0, raised |-> TRUE, err |-> i.err, ops |-> <<>>]
    ELSE LET g == getconn(i.cp, fault) IN
         IF g.raised
         THEN [cp |-> g.cp, conn |-> 0, raised |-> TRUE, err |-> g.err,
               ops |-> <<>>]
         ELSE [cp |-> g.cp, conn |-> g.conn, raised |-> FALSE, err |-> "",
               ops |-> <<"getconn">>]

\* The exit of a block that raises only when its body raised
ExitConnectionNoFinally(cp, conn, bodyRaised, bodyErr, closed) ==
    IF bodyRaised
    THEN [cp |-> cp, raised |-> TRUE,
          err |-> IF closed THEN "connection already closed" ELSE bodyErr,
          ops |-> <<"rollback">>]
    ELSE [cp |-> putconn(cp, conn, closed).cp, raised |-> FALSE, err |-> "",
          ops |-> <<"putconn">>]

\* get_db_connection after its yield: when the body raised, rollback (which
\* itself raises on a closed connection) and re-raise; in every case the
\* finally clause hands the connection back to the pool.
ExitConnection(cp, conn, bodyRaised, bodyErr, closed) ==
    LET p == putconn(cp, conn, closed) IN
    IF bodyRaised
    THEN [cp |-> p.cp, raised |-> TRUE,
          err |-> IF closed THEN "connection already closed" ELSE bodyErr,
          ops |-> <<"rollback", "putconn">>]
    ELSE [cp |-> p.cp, raised |-> p.raised, err |-> p.err,
          ops |-> <<"putconn">>]

----------------------------------------------------------------------------
(* Strings: sequences of one-character strings *)

Lowers ==
    <<"a", "b", "c", "d", "e", "f", "g", "h", "i", "j", "k", "l", "m",
      "n", "o", "p", "q", "r", "s", "t", "u", "v", "w", "x", "y", "z">>
Uppers ==
    <<"A", "B", "C", "D", "E", "F", "G", "H", "I", "J", "K", "L", "M",
      "N", "O", "P", "Q", "R", "S", "T", "U", "V", "W", "X", "Y", "Z">>

\* str.upper() and the case folding of ILIKE, character by character
UpperChar(c) ==
    IF \E i \in 1..Len(Lowers) : Lowers[i] = c
    THEN Uppers[CHOOSE i \in 1..Len(Lowers) : Lowers[i] = c]
    ELSE c
LowerChar(c) ==
    IF \E i \in 1..Len(Uppers) : Uppers[i] = c
    THEN Lowers[CHOOSE i \in 1..Len(Uppers) : Uppers[i] = c]
    ELSE c
Upper(s) == [i \in 1..Len(s) |-> UpperChar(s[i])]
Lower(s) == [i \in 1..Len(s) |-> LowerChar(s[i])]

\* f"%{name}%"
WrapWildcards(s) == <<"%">> \o s \o <<"%">>

\* SQL LIKE with the wildcard %: does the pattern p match all of s
RECURSIVE LikeMatch(_, _)
LikeMatch(s, p) ==
    IF p = <<>> THEN s = <<>>
    ELSE IF Head(p) = "%"
    THEN \E k \in 0..Len(s) : LikeMatch(SubSeq(s, k + 1, Len(s)), Tail(p))
    ELSE s # <<>> /\ Head(s) = Head(p) /\ LikeMatch(Tail(s), Tail(p))

ILike(s, p) == LikeMatch(Lower(s), Lower(p))

Digits == <<"0", "1", "2", "3", "4", "5", "6", "7", "8", "9">>

\* The character U+00B2, superscript two: a digit that is not a decimal
SuperscriptTwo == "sup2"

\* The decimal characters, which int() and the store's literals are made of
IsDecimal(c) == \E i \in 1..10 : Digits[i] = c
DigitVal(c) == (CHOOSE i \in 1..10 : Digits[i] = c) - 1
IsDecimalStr(s) == Len(s) > 0 /\ \A i \in 1..Len(s) : IsDecimal(s[i])

\* str.isdigit(): non-empty and every character a digit, decimal or not
IsDigit(c) == IsDecimal(c) \/ c = SuperscriptTwo
IsDigitStr(s) == Len(s) > 0 /\ \A i \in 1..Len(s) : IsDigit(s[i])

\* int(s) of a digit string; the store reads a date literal the same way
\* (dates are day numbers in the model, and a date string is its decimal form)
RECURSIVE IntOfStr(_)
IntOfStr(s) ==
    IF s = <<>> THEN 0
    ELSE 10 * IntOfStr(SubSeq(s, 1, Len(s) - 1)) + DigitVal(s[Len(s)])

PyDate(n) == [t |-> "date", v |-> n]

----------------------------------------------------------------------------
(* The store: how it evaluates the statements the tools send.              *)
(* A statement is a record: verb (what is selected), table, where (the     *)
(* conjuncts of the WHERE clause, in order), order (the ORDER BY keys) and *)
(* tail (the LIMIT and OFFSET items). A conjunct or tail item whose rhs is *)
(* "%s" is a positional placeholder.                                       *)

Cond(col, op, rhs) == [col |-> col, op |-> op, rhs |-> rhs]
AlwaysTrue == Cond("1", "=", "1")          \* the literal 1=1
Key(col, desc, nullsLast) == [col |-> col, desc |-> desc, nullsLast |-> nullsLast]
TailItem(kw, rhs) == [kw |-> kw, rhs |-> rhs]
\* LIMIT n, the number written in the statement
TailLiteral(kw, n) == [kw |-> kw, rhs |-> "literal", val |-> n]

DateCols == {"transaction_date", "filing_date", "entry_date", "timestamp"}

RECURSIVE Placeholders(_)
Placeholders(items) ==
    IF items = <<>> THEN 0
    ELSE (IF Head(items).rhs = "%s" THEN 1 ELSE 0) + Placeholders(Tail(items))

\* The value a date column is compared with: a date, or a date literal
DateOf(b) == IF b.t = "str" THEN IntOfStr(b.v) ELSE b.v

\* One conjunct on one row, b being the value bound to its right-hand side.
\* A comparison with NULL is not true.
CondHolds(r, c, b) ==
    IF c.col = "1" THEN TRUE
    ELSE IF r[c.col] = None \/ b = None THEN FALSE
    ELSE IF c.op = "ILIKE" THEN ILike(r[c.col].v, b.v)
    ELSE IF c.col \in DateCols
    THEN CASE c.op = "=" -> r[c.col].v = DateOf(b)
           [] c.op = ">=" -> r[c.col].v >= DateOf(b)
           [] c.op = "<=" -> r[c.col].v <= DateOf(b)
    ELSE r[c.col] = b

Literal(rhs) == IF rhs = "TRUE" THEN PyBool(TRUE) ELSE PyBool(FALSE)

\* The WHERE clause on one row: each placeholder takes the next parameter
RECURSIVE WhereHolds(_, _, _)
WhereHolds(r, where, params) ==
    IF where = <<>> THEN TRUE
    ELSE IF Head(where).rhs = "%s"
    THEN /\ CondHolds(r, Head(where), Head(params))
         /\ WhereHolds(r, Tail(where), Tail(params))
    ELSE /\ CondHolds(r, Head(where), Literal(Head(where).rhs))
         /\ WhereHolds(r, Tail(where), params)

\* A string bound to a date column must be a date literal
RECURSIVE BadDate(_, _)
BadDate(where, params) ==
    IF where = <<>> THEN FALSE
    ELSE IF Head(where).rhs = "%s"
    THEN \/ /\ Head(where).col \in DateCols
            /\ Head(params).t = "str"
            /\ ~IsDecimalStr(Head(params).v)
         \/ BadDate(Tail(where), Tail(params))
    ELSE BadDate(Tail(where), params)

\* ORDER BY: -1 when a sorts before b under the key, 1 when after, 0 on a tie.
\* NULLs sort first under DESC unless NULLS LAST, and last under ASC.
\* Column values compared: an average is the exact quotient num / den
ValEq(x, y) ==
    IF x.t = "ratio" THEN x.num * y.den = y.num * x.den ELSE x.v = y.v
ValGt(x, y) ==
    IF x.t = "ratio" THEN x.num * y.den > y.num * x.den ELSE x.v > y.v

CmpKey(a, b, k) ==
    LET va == a[k.col]
        vb == b[k.col]
        nullFirst == k.desc /\ ~k.nullsLast
    IN  IF va = None /\ vb = None THEN 0
        ELSE IF va = None THEN (IF nullFirst THEN -1 ELSE 1)
        ELSE IF vb = None THEN (IF nullFirst THEN 1 ELSE -1)
        ELSE IF ValEq(va, vb) THEN 0
        ELSE IF ValGt(va, vb) = k.desc THEN -1 ELSE 1

RECURSIVE CmpRows(_, _, _)
CmpRows(a, b, keys) ==
    IF keys = <<>> THEN 0
    ELSE IF CmpKey(a, b, Head(keys)) # 0 THEN CmpKey(a, b, Head(keys))
    ELSE CmpRows(a, b, Tail(keys))

\* Rows that tie keep their table order (the store is free to order them
\* either way; none of the properties below depends on the choice)
\* x put into an ordered sequence, after the rows that sort before it or tie
InsertRow(sorted, x, keys) ==
    LET k == Cardinality({i \in 1..Len(sorted) :
                              CmpRows(sorted[i], x, keys) <= 0})
    IN  SubSeq(sorted, 1, k) \o <<x>> \o SubSeq(sorted, k + 1, Len(sorted))

RECURSIVE SortRows(_, _)
SortRows(rows, keys) ==
    IF rows = <<>> THEN <<>>
    ELSE InsertRow(SortRows(SubSeq(rows, 1, Len(rows) - 1), keys),
                   rows[Len(rows)], keys)

Min(a, b) == IF a <= b THEN a ELSE b
Max(a, b) == IF a >= b THEN a ELSE b

\* LIMIT n OFFSET m on an ordered result
LimitOffsetInclusive(rows, limit, offset) ==
    SubSeq(rows, offset + 1, Min(Len(rows), offset + limit + 1))

LimitOffset(rows, limit, offset) ==
    SubSeq(rows, offset + 1, Min(Len(rows), offset + limit))

\* The columns of an aggregate select list
CountAll(as) == [as |-> as, fn |-> "COUNT(*)", col |-> "", op |-> "", lit |-> None]
CountCase(as, col, op, lit) ==     \* COUNT(CASE WHEN col op lit THEN 1 END)
    [as |-> as, fn |-> "COUNT(CASE)", col |-> col, op |-> op, lit |-> lit]
Sum(as, col) == [as |-> as, fn |-> "SUM", col |-> col, op |-> "", lit |-> None]
Avg(as, col) == [as |-> as, fn |-> "AVG", col |-> col, op |-> "", lit |-> None]
CountDistinct(as, col) ==
    [as |-> as, fn |-> "COUNT(DISTINCT)", col |-> col, op |-> "", lit |-> None]
\* A column of the GROUP BY list, selected as it is
GroupCol(col) == [as |-> col, fn |-> "GROUP", col |-> col, op |-> "", lit |-> None]

Ratio(num, den) == [t |-> "ratio", num |-> num, den |-> den]
NonNull(rows, col) == {i \in 1..Len(rows) : rows[i][col] # None}

\* CASE WHEN col op lit: a comparison with NULL is not true
CaseHolds(r, a) ==
    IF a.op = "IS NULL" THEN r[a.col] = None
    ELSE IF r[a.col] = None THEN FALSE
    ELSE CASE a.op = "=" -> r[a.col] = a.lit
           [] a.op = ">" -> r[a.col].v > a.lit.v
           [] a.op = "<" -> r[a.col].v < a.lit.v

RECURSIVE SumCol(_, _)
SumCol(rows, col) ==
    IF rows = <<>> THEN 0
    ELSE (IF Head(rows)[col] = None THEN 0 ELSE Head(rows)[col].v)
         + SumCol(Tail(rows), col)

MaxOf(as, col) == [as |-> as, fn |-> "MAX", col |-> col, op |-> "", lit |-> None]
MinOf(as, col) == [as |-> as, fn |-> "MIN", col |-> col, op |-> "", lit |-> None]

\* MAX(col) or MIN(col): the greatest or least value that is not NULL
Extreme(rows, col, greatest) ==
    IF NonNull(rows, col) = {} THEN None
    ELSE LET vals == {rows[i][col] : i \in NonNull(rows, col)}
         IN  CHOOSE v \in vals :
                \A w \in vals :
                    IF greatest THEN ~ValGt(w, v) ELSE ~ValGt(v, w)

\* One aggregate over the selected rows; SUM, AVG, MAX and MIN skip NULLs
\* and are NULL when no value is left
Aggregate(rows, a) ==
    CASE a.fn = "COUNT(*)" -> PyInt(Len(rows))
      [] a.fn = "COUNT(CASE)" ->
            PyInt(Cardinality({i \in 1..Len(rows) : CaseHolds(rows[i], a)}))
      [] a.fn = "COUNT(DISTINCT)" ->
            PyInt(Cardinality({rows[i][a.col] : i \in NonNull(rows, a.col)}))
      [] a.fn = "SUM" ->
            IF NonNull(rows, a.col) = {} THEN None
            ELSE PyInt(SumCol(rows, a.col))
      [] a.fn = "AVG" ->
            IF NonNull(rows, a.col) = {} THEN None
            ELSE Ratio(SumCol(rows, a.col), Cardinality(NonNull(rows, a.col)))
      [] a.fn = "GROUP" -> rows[1][a.col]
      [] a.fn = "MAX" -> Extreme(rows, a.col, TRUE)
      [] a.fn = "MIN" -> Extreme(rows, a.col, FALSE)

\* The single row of an aggregate query without GROUP BY
AggregateRow(rows, columns) ==
    [n \in {columns[i].as : i \in 1..Len(columns)} |->
        Aggregate(rows, columns[CHOOSE i \in 1..Len(columns) : columns[i].as = n])]

\* GROUP BY: the rows of the group of row i, and the first row of each group
SameGroup(a, b, group) == \A j \in 1..Len(group) : a[group[j]] = b[group[j]]

GroupOf(rows, i, group) ==
    LET InGroup(r) == SameGroup(r, rows[i], group)
    IN  SelectSeq(rows, InGroup)

GroupLeaders(rows, group) ==
    LET n == Len(rows)
        First(i) == \A j \in 1..(i - 1) : ~SameGroup(rows[j], rows[i], group)
        Idx == [i \in 1..n |-> i]
    IN  SelectSeq(Idx, First)

\* One row for each group, in the order the groups first occur
GroupRows(rows, group, columns) ==
    [g \in 1..Len(GroupLeaders(rows, group)) |->
        AggregateRow(GroupOf(rows, GroupLeaders(rows, group)[g], group), columns)]

\* The value of the LIMIT or OFFSET item: a bound parameter or a literal
TailVal(q, params, kw, default) ==
    IF \E i \in 1..Len(q.tail) : q.tail[i].kw = kw
    THEN LET k == CHOOSE j \in 1..Len(q.tail) : q.tail[j].kw = kw
         IN  IF q.tail[k].rhs = "%s"
             THEN params[Placeholders(q.where)
                         + Placeholders(SubSeq(q.tail, 1, k))].v
             ELSE q.tail[k].val
    ELSE default

\* The rows of the statement's table that satisfy its WHERE clause
Matching(st, q, params) ==
    LET Test(r) == WhereHolds(r, q.where, params)
    IN  SelectSeq(st[q.table], Test)

\* UPDATE table SET col = val WHERE ...
UpdateRows(st, q, params) ==
    [st EXCEPT ![q.table] =
        [i \in 1..Len(st[q.table]) |->
            IF WhereHolds(st[q.table][i], q.where, params)
            THEN [st[q.table][i] EXCEPT ![q.set.col] = q.set.val]
            ELSE st[q.table][i]]]

StatementResult(rows, rowcount, st) ==
    [raised |-> FALSE, err |-> "", rows |-> rows, rowcount |-> rowcount,
     store |-> st]
StatementError(st, m) ==
    [raised |-> TRUE, err |-> m, rows |-> <<>>, rowcount |-> 0, store |-> st]

\* The statement on the rows its WHERE clause selects
Evaluate(st, q, params, matched) ==
    CASE q.verb = "SELECT *" ->
            StatementResult(
                LimitOffset(SortRows(matched, q.order),
                            TailVal(q, params, "LIMIT", Len(matched)),
                            TailVal(q, params, "OFFSET", 0)),
                0, st)
      [] q.verb = "SELECT COUNT(*) as total" ->
            StatementResult(<<[total |-> PyInt(Len(matched))]>>, 0, st)
      [] q.verb = "SELECT aggregates" ->
            StatementResult(<<AggregateRow(matched, q.columns)>>, 0, st)
      [] q.verb = "SELECT grouped" ->
            StatementResult(
                LimitOffset(SortRows(GroupRows(matched, q.group, q.columns),
                                     q.order),
                            TailVal(q, params, "LIMIT", Len(matched)),
                            TailVal(q, params, "OFFSET", 0)),
                0, st)
      [] q.verb = "SELECT 1" ->
            StatementResult(<<[one |-> PyInt(1)]>>, 0, st)
      [] q.verb = "UPDATE" ->
            StatementResult(<<>>, Len(matched), UpdateRows(st, q, params))

\* cur.execute(query, params) as the driver and the store carry it out:
\* the parameters are substituted positionally (a count mismatch raises in
\* the driver), then the store runs the statement, rejecting a malformed
\* date literal and a negative LIMIT or OFFSET.
RunStatement(st, q, params) ==
    IF Placeholders(q.where) + Placeholders(q.tail) # Len(params)
    THEN StatementError(st, "not all arguments converted during string formatting")
    ELSE IF BadDate(q.where, params)
    THEN StatementError(st, "invalid input syntax for type date")
    ELSE IF \E i \in 1..Len(q.tail) :
               /\ q.tail[i].rhs = "%s"
               /\ params[Placeholders(q.where)
                         + Placeholders(SubSeq(q.tail, 1, i))].v < 0
    THEN StatementError(st, "LIMIT and OFFSET must not be negative")
    ELSE Evaluate(st, q, params,
                  IF q.verb = "SELECT 1" THEN <<>> ELSE Matching(st, q, params))

Select(verb, table, where, order, tail) ==
    [verb |-> verb, table |-> table, where |-> where, order |-> order,
     tail |-> tail]

\* SELECT <aggregates> FROM table WHERE ...
SelectAggregates(table, columns, where) ==
    [verb |-> "SELECT aggregates", table |-> table, where |-> where,
     order |-> <<>>, tail |-> <<>>, columns |-> columns]

\* SELECT <group columns, aggregates> ... GROUP BY ... ORDER BY ... LIMIT
SelectGrouped(table, group, columns, where, order, tail) ==
    [verb |-> "SELECT grouped", table |-> table, where |-> where,
     order |-> order, tail |-> tail, group |-> group, columns |-> columns]

----------------------------------------------------------------------------
(* db.py: the query executor *)

\* What an executor call leaves behind: the pool, the store, whether it
\* raised and with what message, the value returned, the trace of operations
\* on the pool and the connection, and whether the statement reached the store
Outcome(cp, st, raised, err, value, ops, sent) ==
    [cp |-> cp, store |-> st, raised |-> raised, err |-> err, value |-> value,
     ops |-> ops, sent |-> sent]

ConnectionLost == "server closed the connection unexpectedly"

BodyResult(raised, err, value, st, ops, closed) ==
    [raised |-> raised, err |-> err, value |-> value, store |-> st,
     ops |-> ops, closed |-> closed]

\* A fetch for which no row is an error when one row was asked for
FetchOrRaise(r, fetch_one, fault) ==
    IF r.raised
    THEN BodyResult(TRUE, r.err, None, r.store, <<"execute">>, FALSE)
    ELSE IF fault.at = "fetch" \/ (fetch_one /\ r.rows = <<>>)
    THEN BodyResult(TRUE, ConnectionLost, None, r.store,
                    <<"execute", IF fetch_one THEN "fetchone" ELSE "fetchall">>,
                    fault.broken)
    ELSE IF fetch_one
    THEN BodyResult(FALSE, "", r.rows[1], r.store, <<"execute", "fetchone">>,
                    FALSE)
    ELSE BodyResult(FALSE, "", r.rows, r.store, <<"execute", "fetchall">>, FALSE)

\* The rest of execute_query's body once cur.execute has returned r:
\* fetchone (the first row or None) or fetchall (all rows)
Fetch(r, fetch_one, fault) ==
    IF r.raised
    THEN BodyResult(TRUE, r.err, None, r.store, <<"execute">>, FALSE)
    ELSE IF fault.at = "fetch"
    THEN BodyResult(TRUE, ConnectionLost, None, r.store,
                    <<"execute", IF fetch_one THEN "fetchone" ELSE "fetchall">>,
                    fault.broken)
    ELSE IF fetch_one
    THEN BodyResult(FALSE, "", IF r.rows = <<>> THEN None ELSE r.rows[1],
                    r.store, <<"execute", "fetchone">>, FALSE)
    ELSE BodyResult(FALSE, "", r.rows, r.store, <<"execute", "fetchall">>, FALSE)

\* The body of execute_query's with block. A read leaves the store as it is.
QueryBody(st, q, params, fetch_one, fault) ==
    IF fault.at = "execute"
    THEN BodyResult(TRUE, ConnectionLost, None, st, <<"execute">>, fault.broken)
    ELSE Fetch([RunStatement(st, q, params) EXCEPT !.store = st],
               fetch_one, fault)

\* A commit whose failure leaves the statement's effect in the store
CommitKeepsEffect(st, r, fault) ==
    IF r.raised
    THEN BodyResult(TRUE, r.err, None, st, <<"execute">>, FALSE)
    ELSE IF fault.at = "commit"
    THEN BodyResult(TRUE, ConnectionLost, None, r.store,
                    <<"execute", "commit">>, fault.broken)
    ELSE BodyResult(FALSE, "", PyInt(r.rowcount), r.store,
                    <<"execute", "commit">>, FALSE)

\* The rest of execute_write's body once cur.execute has returned r:
\* commit, then the row count. The statement's effect reaches the store
\* when the commit succeeds.
Commit(st, r, fault) ==
    IF r.raised
    THEN BodyResult(TRUE, r.err, None, st, <<"execute">>, FALSE)
    ELSE IF fault.at = "commit"
    THEN BodyResult(TRUE, ConnectionLost, None, st, <<"execute", "commit">>,
                    fault.broken)
    ELSE BodyResult(FALSE, "", PyInt(r.rowcount), r.store,
                    <<"execute", "commit">>, FALSE)

\* The body of execute_write's with block
WriteBody(st, q, params, fault) ==
    IF fault.at = "execute"
    THEN BodyResult(TRUE, ConnectionLost, None, st, <<"execute">>, fault.broken)
    ELSE Commit(st, RunStatement(st, q, params), fault)

\* The body of test_connection's with block: SELECT 1
ProbeBody(st, fault) ==
    IF fault.at = "execute"
    THEN BodyResult(TRUE, ConnectionLost, None, st, <<"execute">>, fault.broken)
    ELSE BodyResult(FALSE, "", None, st, <<"execute">>, FALSE)

\* What the caller of a with block sees once get_db_connection has exited
\* (x), after entering it (e) and running the body (b)
AfterExit(e, b, x) ==
    Outcome(x.cp, b.store, x.raised, x.err, b.value,
            e.ops \o b.ops \o x.ops, TRUE)

\* A with get_db_connection() block whose body ended as b
Leave(e, b) ==
    AfterExit(e, b, ExitConnection(e.cp, e.conn, b.raised, b.err, b.closed))

\* with get_db_connection() as conn: the body runs only once a connection
\* has been acquired (e), and then the context manager exits
QueryBlock(e, st, q, params, fetch_one, fault) ==
    IF e.raised
    THEN Outcome(e.cp, st, TRUE, e.err, None, e.ops, FALSE)
    ELSE Leave(e, QueryBody(st, q, params, fetch_one, fault))

execute_query(cp, st, q, params, fetch_one, fault) ==
    QueryBlock(EnterConnection(cp, fault), st, q, params, fetch_one, fault)

WriteBlock(e, st, q, params, fault) ==
    IF e.raised
    THEN Outcome(e.cp, st, TRUE, e.err, None, e.ops, FALSE)
    ELSE Leave(e, WriteBody(st, q, params, fault))

execute_write(cp, st, q, params, fault) ==
    WriteBlock(EnterConnection(cp, fault), st, q, params, fault)

\* A probe that lets the exception through to its caller
ProbePropagates(o) == [o EXCEPT !.value = PyBool(~o.raised)]

\* test_connection: any exception, from the pool or from the statement,
\* becomes the return value False
ProbeResult(o) ==
    [o EXCEPT !.raised = FALSE, !.err = "", !.value = PyBool(~o.raised)]

ProbeBlock(e, st, fault) ==
    IF e.raised
    THEN Outcome(e.cp, st, TRUE, e.err, None, e.ops, FALSE)
    ELSE Leave(e, ProbeBody(st, fault))

test_connection(cp, st, fault) ==
    ProbeResult(ProbeBlock(EnterConnection(cp, fault), st, fault))

SelectOne == [verb |-> "SELECT 1", table |-> "", where |-> <<>>,
              order |-> <<>>, tail |-> <<>>]

----------------------------------------------------------------------------
(* The tables *)

S(chars) == PyStr(chars)

\* An insider_transactions row. The columns that no statement of the tools
\* modelled filters or orders by and that nothing below reads are NULL.
TxRow(id, xid, tk, co, nm, td, fd, gen, ql, sc, al, val) ==
    [id |-> PyInt(id), transaction_id |-> xid, ticker |-> tk,
     company_name |-> co, insider_name |-> nm, transaction_date |-> td,
     filing_date |-> fd, signal_generated |-> PyBool(gen),
     signal_quality |-> ql, signal_score |-> sc, alert_sent |-> PyBool(al),
     transaction_value |-> val, shares |-> None,
     final_signal_score |-> None, auto_rejected |-> None]

\* An llm_calls row
CallRow(id, tk, co, status, rec, closed, entry, called, pnl, pct) ==
    [id |-> PyInt(id), ticker |-> tk, company_name |-> co, status |-> status,
     recommendation |-> rec, is_closed |-> PyBool(closed),
     entry_date |-> entry, call_date |-> called, pnl_dollars |-> pnl,
     price_change_pct |-> pct, holding_days |-> None, batch_id |-> None,
     rank |-> None]

\* A JSONB value: a list of strings
JsonList(items) == [t |-> "list", v |-> items]

\* A market_context row
CtxRow(id, timestamp, sector, patterns) ==
    [id |-> PyInt(id), timestamp |-> timestamp, sector_activity |-> sector,
     ceo_cfo_buys |-> None, large_transactions |-> None,
     notable_patterns |-> patterns, batch_size |-> None]

Tesla == S(<<"T", "e", "s", "l", "a">>)
Apple == S(<<"A", "p", "p", "l", "e">>)
TSLA == S(<<"T", "S", "L", "A">>)
AAPL == S(<<"A", "A", "P", "L">>)

----------------------------------------------------------------------------
(* Calls and their results *)

NoRequest == [tool |-> "none"]
NoResponse == [status |-> "none"]

\* The result of a direct call of an executor function
DbResponse(o) ==
    IF o.raised
    THEN [status |-> "raised", err |-> o.err]
    ELSE [status |-> "returned", value |-> o.value]

Sent(o, q, params) ==
    IF o.sent THEN <<[query |-> q, params |-> params]>> ELSE <<>>

\* The response has been handed to the caller; the server waits for a call
Return ==
    /\ pc = "done"
    /\ pc' = "ready"
    /\ request' = NoRequest
    /\ response' = NoResponse
    /\ statements' = <<>>
    /\ conn_ops' = <<>>
    /\ UNCHANGED <<connection_pool, store>>

----------------------------------------------------------------------------
(* A tool's body: statements run one after the other inside one try block; *)
(* the first exception ends the body.                                      *)

\* The progress of a tool body: the pool and the store as the statements
\* left them, the statements sent, the operations on connections, whether a
\* statement raised, and the values the statements returned so far
Start(cp, st) ==
    [cp |-> cp, store |-> st, stmts |-> <<>>, ops |-> <<>>, raised |-> FALSE,
     err |-> "", values |-> <<>>]

Record(run, q, params, o) ==
    [cp |-> o.cp, store |-> o.store, stmts |-> run.stmts \o Sent(o, q, params),
     ops |-> run.ops \o o.ops, raised |-> o.raised, err |-> o.err,
     values |-> IF o.raised THEN run.values ELSE Append(run.values, o.value)]

\* The statement sent again, once, when it has raised
Again(first, q, params, fetch_one) ==
    IF ~first.raised THEN first
    ELSE Record([first EXCEPT !.raised = FALSE], q, params,
                execute_query(first.cp, first.store, q, params, fetch_one,
                              NoFault))

\* A body that retries a statement that raised
ThenRetry(run, q, params, fetch_one, fault) ==
    IF run.raised
    THEN run
    ELSE Again(Record(run, q, params,
                      execute_query(run.cp, run.store, q, params, fetch_one,
                                    fault)),
               q, params, fetch_one)

\* The next execute_query of the body; skipped once a statement has raised
Then(run, q, params, fetch_one, fault) ==
    IF run.raised
    THEN run
    ELSE Record(run, q, params,
                execute_query(run.cp, run.store, q, params, fetch_one, fault))

\* An except clause that raises the underlying message alone
ToolErrorBare(run, description) ==
    [cp |-> run.cp, store |-> run.store, statements |-> run.stmts,
     conn_ops |-> run.ops,
     response |-> [status |-> "error", message |-> <<run.err>>]]

\* except Exception as e: raise Exception(f"<description>: {str(e)}")
ToolError(run, description) ==
    [cp |-> run.cp, store |-> run.store, statements |-> run.stmts,
     conn_ops |-> run.ops,
     response |-> [status |-> "error", message |-> <<description, run.err>>]]

\* return { ... "status": "success" }
ToolSuccess(run, envelope) ==
    [cp |-> run.cp, store |-> run.store, statements |-> run.stmts,
     conn_ops |-> run.ops,
     response |-> [status |-> "success", envelope |-> envelope]]

\* A tool call has ended as t
ToolCallEnds(req, t) ==
    /\ connection_pool' = t.cp
    /\ store' = t.store
    /\ request' = req
    /\ response' = t.response
    /\ statements' = t.statements
    /\ conn_ops' = t.conn_ops
    /\ pc' = "done"

\* datetime.now(), as a day number
Today == 400
Timestamp == PyDate(Today)

----------------------------------------------------------------------------
(* Limits, filters and the paired row and count queries *)

InsiderLimitMax == 1000
InsiderLimitDefault == 100
LlmCallsLimitMax == 1000
LlmCallsLimitDefault == 100

\* The clamp that replaces every limit with the cap when it exceeds it
ClampToCap(limit, cap, default) ==
    IF limit < 1 THEN default ELSE IF limit > cap THEN cap ELSE limit

\* if limit < 1 or limit > cap: limit = default
Clamp(limit, cap, default) ==
    IF limit < 1 \/ limit > cap THEN default ELSE limit

\* One "if <filter supplied>: conditions.append(...); params.append(...)"
Filter(present, cond, value) ==
    [present |-> present, cond |-> cond, value |-> value]

\* A builder that puts each new parameter in front of the earlier ones
RECURSIVE ApplyFiltersReversed(_, _, _)
ApplyFiltersReversed(filters, conditions, params) ==
    IF filters = <<>>
    THEN [conditions |-> conditions, params |-> params]
    ELSE IF Head(filters).present
    THEN ApplyFiltersReversed(Tail(filters),
                              Append(conditions, Head(filters).cond),
                              <<Head(filters).value>> \o params)
    ELSE ApplyFiltersReversed(Tail(filters), conditions, params)

\* The if blocks in order: each supplied filter appends its predicate to
\* conditions and its value to params
RECURSIVE ApplyFilters(_, _, _)
ApplyFilters(filters, conditions, params) ==
    IF filters = <<>>
    THEN [conditions |-> conditions, params |-> params]
    ELSE IF Head(filters).present
    THEN ApplyFilters(Tail(filters),
                      Append(conditions, Head(filters).cond),
                      Append(params, Head(filters).value))
    ELSE ApplyFilters(Tail(filters), conditions, params)

\* " AND ".join(conditions) if conditions else "1=1"
WhereClause(conditions) ==
    IF conditions # <<>> THEN conditions ELSE <<AlwaysTrue>>

\* A builder that binds a string as it was given
AsGiven(x) == x

\* x.upper() and f"%{x}%" of a supplied string (None stays None)
UpperOf(x) == IF x.t = "str" THEN PyStr(Upper(x.v)) ELSE x
WrapOf(x) == IF x.t = "str" THEN PyStr(WrapWildcards(x.v)) ELSE x

\* The count query bound with the row query's parameters, unsliced
CountParamsUnsliced(params) == params

\* tuple(params[:-2])
CountParams(params) == SubSeq(params, 1, Len(params) - 2)

LimitOffsetTail == <<TailItem("LIMIT", "%s"), TailItem("OFFSET", "%s")>>

\* The row query, then the count query with the same WHERE clause
RowQuery(run, table, order, where, params, fault) ==
    Then(run, Select("SELECT *", table, where, order, LimitOffsetTail),
         params, FALSE, fault)

CountQuery(run, table, where, params, fault) ==
    Then(run, Select("SELECT COUNT(*) as total", table, where, <<>>, <<>>),
         CountParams(params), TRUE, fault)

PagedQueries(run, table, order, where, params, faults) ==
    CountQuery(RowQuery(run, table, order, where, params, faults[1]),
               table, where, params, faults[2])

\* params.append(limit); params.append(offset), then the two queries
Paginated(run, table, order, f, limit, offset, faults) ==
    PagedQueries(run, table, order, WhereClause(f.conditions),
                 f.params \o <<PyInt(limit), PyInt(offset)>>, faults)

\* count_result['total'] if count_result else 0
TotalOf(count_result) ==
    IF count_result # None THEN count_result.total ELSE PyInt(0)

\* The envelope of a paginated tool, key naming its payload
PageEnvelope(key, values, limit, offset) ==
    [k \in {key, "count", "total", "limit", "offset", "timestamp", "status"} |->
        CASE k = key -> values[1]
          [] k = "count" -> PyInt(Len(values[1]))
          [] k = "total" -> TotalOf(values[2])
          [] k = "limit" -> PyInt(limit)
          [] k = "offset" -> PyInt(offset)
          [] k = "timestamp" -> Timestamp
          [] k = "status" -> "success"]

PageResult(run, key, description, limit, offset) ==
    IF run.raised
    THEN ToolError(run, description)
    ELSE ToolSuccess(run, PageEnvelope(key, run.values, limit, offset))

----------------------------------------------------------------------------
(* insider_transactions.py: get_insider_transactions *)

TxFilters(req) ==
    <<Filter(Truthy(req.ticker), Cond("ticker", "=", "%s"), UpperOf(req.ticker)),
      Filter(Truthy(req.insider_name), Cond("insider_name", "ILIKE", "%s"),
             WrapOf(req.insider_name)),
      Filter(Truthy(req.start_date), Cond("transaction_date", ">=", "%s"),
             req.start_date),
      Filter(Truthy(req.end_date), Cond("transaction_date", "<=", "%s"),
             req.end_date),
      Filter(req.signal_generated # None, Cond("signal_generated", "=", "%s"),
             req.signal_generated),
      Filter(Truthy(req.signal_quality), Cond("signal_quality", "=", "%s"),
             req.signal_quality),
      Filter(req.alert_sent # None, Cond("alert_sent", "=", "%s"),
             req.alert_sent)>>

TxOrder == <<Key("transaction_date", TRUE, TRUE), Key("filing_date", TRUE, FALSE)>>

TxPage(cp, st, req, limit) ==
    PageResult(
        Paginated(Start(cp, st), "insider_transactions", TxOrder,
                  ApplyFilters(TxFilters(req), <<>>, <<>>),
                  limit, req.offset, req.faults),
        "transactions", "Failed to retrieve insider transactions: ",
        limit, req.offset)

get_insider_transactions(cp, st, req) ==
    TxPage(cp, st, req, Clamp(req.limit, InsiderLimitMax, InsiderLimitDefault))

----------------------------------------------------------------------------
(* llm_calls.py: get_llm_calls *)

CallFilters(req) ==
    <<Filter(Truthy(req.ticker), Cond("ticker", "=", "%s"), UpperOf(req.ticker)),
      Filter(Truthy(req.status), Cond("status", "=", "%s"), UpperOf(req.status)),
      Filter(Truthy(req.recommendation), Cond("recommendation", "=", "%s"),
             UpperOf(req.recommendation)),
      Filter(req.is_closed # None, Cond("is_closed", "=", "%s"), req.is_closed),
      Filter(Truthy(req.start_date), Cond("entry_date", ">=", "%s"),
             req.start_date),
      Filter(Truthy(req.end_date), Cond("entry_date", "<=", "%s"),
             req.end_date)>>

CallOrder == <<Key("entry_date", TRUE, FALSE), Key("call_date", TRUE, FALSE)>>

CallPage(cp, st, req, limit) ==
    PageResult(
        Paginated(Start(cp, st), "llm_calls", CallOrder,
                  ApplyFilters(CallFilters(req), <<>>, <<>>),
                  limit, req.offset, req.faults),
        "calls", "Failed to retrieve LLM calls: ", limit, req.offset)

get_llm_calls(cp, st, req) ==
    CallPage(cp, st, req, Clamp(req.limit, LlmCallsLimitMax, LlmCallsLimitDefault))

----------------------------------------------------------------------------
(* The executor functions called directly, with failures at any stage *)

PoolStore ==
    [insider_transactions |->
        <<TxRow(1, S(<<"x", "1">>), TSLA, Tesla, S(<<"A", "l">>), PyDate(5),
                PyDate(6), TRUE, S(<<"h", "i", "g", "h">>), PyInt(90), FALSE,
                PyInt(10)),
          TxRow(2, S(<<"x", "2">>), AAPL, Apple, S(<<"B", "o">>), None,
                PyDate(7), FALSE, None, None, FALSE, None)>>,
     llm_calls |-> <<>>,
     market_context |-> <<>>]

TxByTicker ==
    Select("SELECT *", "insider_transactions", <<Cond("ticker", "=", "%s")>>,
           <<>>, <<>>)

\* Statements with their parameters; the last one has a parameter too many
PoolQueries ==
    {[query |-> TxByTicker, params |-> <<TSLA>>],
     [query |-> TxByTicker, params |-> <<S(<<"N", "O">>)>>],
     [query |-> TxByTicker, params |-> <<TSLA, PyInt(1)>>]}

MarkAlertSent ==
    [verb |-> "UPDATE", table |-> "insider_transactions",
     where |-> <<Cond("id", "=", "%s")>>, order |-> <<>>, tail |-> <<>>,
     set |-> [col |-> "alert_sent", val |-> PyBool(TRUE)]]

PoolWrites ==
    {[query |-> MarkAlertSent, params |-> <<PyInt(i)>>] : i \in 1..3}
    \cup {[query |-> MarkAlertSent, params |-> <<>>]}

\* main: init_db_pool() before the server runs
Startup ==
    /\ pc = "ready"
    /\ connection_pool = NoPool
    /\ \E fault \in {NoFault, [at |-> "init", broken |-> FALSE]} :
          connection_pool' = init_db_pool(connection_pool, fault).cp
    /\ UNCHANGED <<store, pc, request, response, statements, conn_ops>>

\* A direct call of an executor function has ended as o
DbCallEnds(req, o, q, params) ==
    /\ connection_pool' = o.cp
    /\ store' = o.store
    /\ request' = req
    /\ response' = DbResponse(o)
    /\ statements' = Sent(o, q, params)
    /\ conn_ops' = o.ops
    /\ pc' = "done"

DbExecuteQuery ==
    /\ pc = "ready"
    /\ \E s \in PoolQueries, fetch_one \in BOOLEAN, fault \in Faults :
          DbCallEnds([tool |-> "execute_query", fault |-> fault],
                     execute_query(connection_pool, store, s.query, s.params,
                                   fetch_one, fault),
                     s.query, s.params)

DbExecuteWrite ==
    /\ pc = "ready"
    /\ \E s \in PoolWrites, fault \in Faults :
          DbCallEnds([tool |-> "execute_write", fault |-> fault],
                     execute_write(connection_pool, store, s.query, s.params,
                                   fault),
                     s.query, s.params)

DbTestConnection ==
    /\ pc = "ready"
    /\ \E fault \in Faults :
          DbCallEnds([tool |-> "test_connection", fault |-> fault],
                     test_connection(connection_pool, store, fault),
                     SelectOne, <<>>)

InitPool ==
    /\ connection_pool = NoPool
    /\ store = PoolStore
    /\ pc = "ready"
    /\ request = NoRequest
    /\ response = NoResponse
    /\ statements = <<>>
    /\ conn_ops = <<>>

NextPool ==
    \/ Startup
    \/ DbExecuteQuery
    \/ DbExecuteWrite
    \/ DbTestConnection
    \/ Return

SpecPool == InitPool /\ [][NextPool]_vars

----------------------------------------------------------------------------
(* Store contents and requests for the tool specifications *)

High == S(<<"h", "i", "g", "h">>)
Low == S(<<"l", "o", "w">>)
\* A value that no row holds and no tool knows
Bogus == S(<<"b", "o", "g", "u", "s">>)
AlBo == S(<<"A", "l", " ", "B", "o">>)
Bo == S(<<"B", "o">>)

\* Row i of a table of insider transactions, of one of three kinds
TxOfKind(k, i) ==
    CASE k = 1 -> TxRow(i, S(<<"x", Digits[(i % 10) + 1]>>), TSLA, Tesla, AlBo,
                        PyDate(5), PyDate(6), TRUE, High, PyInt(90), TRUE,
                        PyInt(10))
      [] k = 2 -> TxRow(i, S(<<"x", Digits[(i % 10) + 1]>>), TSLA, Tesla, Bo,
                        None, PyDate(4), FALSE, None, None, FALSE, None)
      [] OTHER -> TxRow(i, S(<<"x", Digits[(i % 10) + 1]>>), AAPL, Apple, AlBo,
                        PyDate(8), PyDate(9), FALSE, Low, PyInt(20), TRUE,
                        PyInt(30))

Buy == S(<<"B", "U", "Y">>)
Sell == S(<<"S", "E", "L", "L">>)
Open == S(<<"O", "P", "E", "N">>)
Closed == S(<<"C", "L", "O", "S", "E", "D">>)

\* Row i of a table of calls, of one of three kinds
CallOfKind(k, i) ==
    CASE k = 1 -> CallRow(i, TSLA, Tesla, Closed, Buy, TRUE, PyDate(5),
                          PyDate(4), PyInt(100), PyInt(12))
      [] k = 2 -> CallRow(i, TSLA, Tesla, Open, Sell, FALSE, PyDate(7),
                          PyDate(6), None, None)
      [] OTHER -> CallRow(i, AAPL, Apple, Closed, Buy, TRUE, PyDate(3),
                          PyDate(2), PyInt(-50), PyInt(-7))

MaxRows == 3
NumKinds == 3

\* The sequences of kinds a small table is made of (kinds in ascending order:
\* the tools' results do not depend on the order of the rows of a table
\* beyond the order of rows that tie)
KindSeqs ==
    UNION {{f \in [1..n -> 1..NumKinds] :
                \A i \in 1..(n - 1) : f[i] <= f[i + 1]} : n \in 0..MaxRows}

SmallTxTables == {[i \in 1..Len(f) |-> TxOfKind(f[i], i)] : f \in KindSeqs}
SmallCallTables == {[i \in 1..Len(f) |-> CallOfKind(f[i], i)] : f \in KindSeqs}

\* A table with more TSLA rows than the default limit
BigRows == 120
BigTxTable == [i \in 1..BigRows |-> TxOfKind(IF i % 8 = 0 THEN 3 ELSE 1, i)]

Tables(tx, calls, ctx) ==
    [insider_transactions |-> tx, llm_calls |-> calls, market_context |-> ctx]

FixedTxTable == <<TxOfKind(1, 1), TxOfKind(2, 2), TxOfKind(3, 3)>>
FixedCallTable == <<CallOfKind(1, 1), CallOfKind(2, 2), CallOfKind(3, 3)>>

PageStores ==
    {Tables(tx, FixedCallTable, <<>>) : tx \in SmallTxTables \cup {BigTxTable}}
    \cup {Tables(FixedTxTable, calls, <<>>) : calls \in SmallCallTables}

tsla == S(<<"t", "s", "l", "a">>)
Empty == S(<<>>)

NoFaults == <<NoFault, NoFault>>
ExecuteFails == [at |-> "execute", broken |-> FALSE]
PageFaults == {NoFaults, <<ExecuteFails, NoFault>>, <<NoFault, ExecuteFails>>}

Limits == {-1, 0, 1, 2, 100, 1000, 1001, 2000}
Offsets == {-1, 0, 1, 2, 5}

TxRequest(ticker, name, from, to, generated, quality, alerted, limit, offset, faults) ==
    [tool |-> "get_insider_transactions", ticker |-> ticker,
     insider_name |-> name, start_date |-> from, end_date |-> to,
     signal_generated |-> generated, signal_quality |-> quality,
     alert_sent |-> alerted, limit |-> limit, offset |-> offset,
     faults |-> faults]

CallsRequest(ticker, status, rec, closed, from, to, limit, offset, faults) ==
    [tool |-> "get_llm_calls", ticker |-> ticker, status |-> status,
     recommendation |-> rec, is_closed |-> closed, start_date |-> from,
     end_date |-> to, limit |-> limit, offset |-> offset, faults |-> faults]

\* Every subset of the filters: a string filter is None, empty or a value, a
\* boolean filter is None, False or True
FilterTxRequests ==
    {TxRequest(t, n, d1, d2, g, q, a, 100, 0, NoFaults) :
        t \in {None, Empty, tsla}, n \in {None, Empty, S(<<"b", "o">>)},
        d1 \in {None, Empty, S(<<"4">>)}, d2 \in {None, Empty, S(<<"6">>)},
        g \in {None, PyBool(FALSE), PyBool(TRUE)}, q \in {None, Empty, High},
        a \in {None, PyBool(FALSE), PyBool(TRUE)}}

FilterCallsRequests ==
    {CallsRequest(t, s, r, c, d1, d2, 100, 0, NoFaults) :
        t \in {None, Empty, tsla}, s \in {None, Empty, S(<<"o", "p", "e", "n">>)},
        r \in {None, Empty, S(<<"b", "u", "y">>)},
        c \in {None, PyBool(FALSE), PyBool(TRUE)},
        d1 \in {None, Empty, S(<<"4">>)}, d2 \in {None, Empty, S(<<"6">>)}}

\* Every limit and offset, on a few filters, with and without a failure
PageTxRequests ==
    {TxRequest(t, None, None, None, g, None, None, l, o, f) :
        t \in {None, tsla}, g \in {None, PyBool(TRUE)}, l \in Limits,
        o \in Offsets, f \in PageFaults}

PageCallsRequests ==
    {CallsRequest(t, None, None, c, None, None, l, o, f) :
        t \in {None, tsla}, c \in {None, PyBool(FALSE)}, l \in Limits,
        o \in Offsets, f \in PageFaults}

----------------------------------------------------------------------------
(* The paginated tools *)

GetInsiderTransactions(requests) ==
    /\ pc = "ready"
    /\ \E req \in requests :
          ToolCallEnds(req, get_insider_transactions(connection_pool, store, req))

GetLlmCalls(requests) ==
    /\ pc = "ready"
    /\ \E req \in requests :
          ToolCallEnds(req, get_llm_calls(connection_pool, store, req))

InitTools(stores) ==
    /\ connection_pool = NoPool
    /\ store \in stores
    /\ pc = "ready"
    /\ request = NoRequest
    /\ response = NoResponse
    /\ statements = <<>>
    /\ conn_ops = <<>>

InitFilter == InitTools({Tables(FixedTxTable, FixedCallTable, <<>>)})

NextFilter ==
    \/ GetInsiderTransactions(FilterTxRequests)
    \/ GetLlmCalls(FilterCallsRequests)
    \/ Return

SpecFilter == InitFilter /\ [][NextFilter]_vars

InitPage == InitTools(PageStores)

NextPage ==
    \/ GetInsiderTransactions(PageTxRequests)
    \/ GetLlmCalls(PageCallsRequests)
    \/ Return

SpecPage == InitPage /\ [][NextPage]_vars

----------------------------------------------------------------------------
(* Scoped acquisition *)

Count(seq, x) == Cardinality({i \in 1..Len(seq) : seq[i] = x})

CheckedOut == IF connection_pool = NoPool THEN {} ELSE connection_pool.used

\* C1: every call of execute_query, execute_write and test_connection hands
\* the connection it acquired back to the pool exactly once, whatever the
\* exit path, so between calls no connection is checked out and the pool
\* has its full capacity.
ScopedAcquisition ==
    /\ CheckedOut = {}
    /\ max_conn - Cardinality(CheckedOut) = max_conn
    /\ Count(conn_ops, "putconn") = Count(conn_ops, "getconn")
    /\ Count(conn_ops, "putconn") <= 1
    /\ (pc = "done" /\ statements # <<>>) => Count(conn_ops, "putconn") = 1

\* A call that failed mid-query on a connection the failure closed: the
\* connection went back to the pool, which discarded it
ScopedAcquisitionWitness ==
    /\ pc = "done"
    /\ request.tool = "execute_query"
    /\ request.fault = [at |-> "fetch", broken |-> TRUE]
    /\ response.status = "raised"
    /\ conn_ops = <<"getconn", "execute", "fetchall", "rollback", "putconn">>
    /\ connection_pool.idle = <<>>

----------------------------------------------------------------------------
(* The filter builder *)

Paged == {"get_insider_transactions", "get_llm_calls"}

\* The parameters the filters contributed: the row query's without the
\* trailing limit and offset
FilterParamsSent ==
    SubSeq(statements[1].params, 1, Len(statements[1].params) - 2)

\* The conjunct of a WHERE clause that holds its i-th placeholder
NthPlaceholder(where, i) ==
    where[CHOOSE k \in 1..Len(where) :
              /\ where[k].rhs = "%s"
              /\ Placeholders(SubSeq(where, 1, k)) = i]

\* The value of the filter that a conjunct belongs to, in its bound form
FilterValue(req, c) ==
    CASE c.col = "ticker" -> PyStr(Upper(req.ticker.v))
      [] c.col = "insider_name" ->
            PyStr(<<"%">> \o req.insider_name.v \o <<"%">>)
      [] c.col \in {"transaction_date", "entry_date"} /\ c.op = ">=" ->
            req.start_date
      [] c.col \in {"transaction_date", "entry_date"} /\ c.op = "<=" ->
            req.end_date
      [] c.col = "signal_generated" -> req.signal_generated
      [] c.col = "signal_quality" -> req.signal_quality
      [] c.col = "alert_sent" -> req.alert_sent
      [] c.col = "status" -> PyStr(Upper(req.status.v))
      [] c.col = "recommendation" -> PyStr(Upper(req.recommendation.v))
      [] c.col = "is_closed" -> req.is_closed

Absent(x) == x = None \/ x = Empty

NoFilterSupplied(req) ==
    IF req.tool = "get_insider_transactions"
    THEN /\ Absent(req.ticker) /\ Absent(req.insider_name)
         /\ Absent(req.start_date) /\ Absent(req.end_date)
         /\ req.signal_generated = None /\ Absent(req.signal_quality)
         /\ req.alert_sent = None
    ELSE /\ Absent(req.ticker) /\ Absent(req.status)
         /\ Absent(req.recommendation) /\ req.is_closed = None
         /\ Absent(req.start_date) /\ Absent(req.end_date)

\* C2: for every subset of the filters of get_insider_transactions and
\* get_llm_calls, the WHERE clause has as many placeholders as filter
\* parameters were collected, the i-th parameter is the value of the filter
\* that contributed the i-th placeholder, and with no filter the clause is
\* 1=1 with no filter parameter.
PlaceholdersMatchParams ==
    (pc = "done" /\ request.tool \in Paged /\ statements # <<>>) =>
        /\ Placeholders(statements[1].query.where) = Len(FilterParamsSent)
        /\ \A i \in 1..Len(FilterParamsSent) :
              FilterParamsSent[i] =
                  FilterValue(request, NthPlaceholder(statements[1].query.where, i))
        /\ NoFilterSupplied(request) =>
              /\ statements[1].query.where = <<AlwaysTrue>>
              /\ FilterParamsSent = <<>>

\* get_insider_transactions with its seven filters supplied, two of them False
PlaceholdersMatchParamsWitness ==
    /\ pc = "done"
    /\ request.tool = "get_insider_transactions"
    /\ request.signal_generated = PyBool(FALSE)
    /\ request.alert_sent = PyBool(FALSE)
    /\ statements # <<>>
    /\ Len(FilterParamsSent) = 7
    /\ response.status = "success"

----------------------------------------------------------------------------
(* Pagination *)

\* Does a row satisfy the filters of a request, read off the request itself
TxMatches(r, req) ==
    /\ Truthy(req.ticker) => r.ticker = PyStr(Upper(req.ticker.v))
    /\ Truthy(req.insider_name) =>
          ILike(r.insider_name.v, <<"%">> \o req.insider_name.v \o <<"%">>)
    /\ Truthy(req.start_date) =>
          /\ r.transaction_date # None
          /\ r.transaction_date.v >= IntOfStr(req.start_date.v)
    /\ Truthy(req.end_date) =>
          /\ r.transaction_date # None
          /\ r.transaction_date.v <= IntOfStr(req.end_date.v)
    /\ req.signal_generated # None => r.signal_generated = req.signal_generated
    /\ Truthy(req.signal_quality) => r.signal_quality = req.signal_quality
    /\ req.alert_sent # None => r.alert_sent = req.alert_sent

CallMatches(r, req) ==
    /\ Truthy(req.ticker) => r.ticker = PyStr(Upper(req.ticker.v))
    /\ Truthy(req.status) => r.status = PyStr(Upper(req.status.v))
    /\ Truthy(req.recommendation) =>
          r.recommendation = PyStr(Upper(req.recommendation.v))
    /\ req.is_closed # None => r.is_closed = req.is_closed
    /\ Truthy(req.start_date) => r.entry_date.v >= IntOfStr(req.start_date.v)
    /\ Truthy(req.end_date) => r.entry_date.v <= IntOfStr(req.end_date.v)

\* T: how many rows of the store match the filters of the request
MatchCount ==
    IF request.tool = "get_insider_transactions"
    THEN Cardinality({i \in 1..Len(store.insider_transactions) :
                         TxMatches(store.insider_transactions[i], request)})
    ELSE Cardinality({i \in 1..Len(store.llm_calls) :
                         CallMatches(store.llm_calls[i], request)})

PayloadKey ==
    IF request.tool = "get_insider_transactions" THEN "transactions" ELSE "calls"

Returned == pc = "done" /\ request.tool \in Paged /\ response.status = "success"

\* C3: the count query has the WHERE clause of the row query and is bound
\* with the row query's parameters minus the trailing limit and offset, so
\* the total returned is the number of rows that match the filters, whatever
\* the limit and the offset.
CountQuerySharesFilters ==
    /\ (pc = "done" /\ request.tool \in Paged /\ Len(statements) = 2) =>
          /\ statements[2].query.verb = "SELECT COUNT(*) as total"
          /\ statements[2].query.table = statements[1].query.table
          /\ statements[2].query.where = statements[1].query.where
          /\ statements[2].query.tail = <<>>
          /\ statements[2].params = FilterParamsSent
    /\ Returned =>
          /\ Len(statements) = 2
          /\ response.envelope.total = PyInt(MatchCount)

\* A page past the first one of a filtered result: the total is still the
\* number of matching rows
CountQuerySharesFiltersWitness ==
    /\ Returned
    /\ request.offset = 2
    /\ request.limit = 1
    /\ request.ticker = tsla
    /\ response.envelope.total = PyInt(3)
    /\ response.envelope.count = PyInt(1)

\* C4 as stated: len(rows) <= min(limit, T - offset) and len(rows) <= the
\* effective limit.
RowsWithinLimitAndRemainder ==
    Returned =>
        /\ Len(response.envelope[PayloadKey])
              <= Min(request.limit, MatchCount - request.offset)
        /\ Len(response.envelope[PayloadKey]) <= response.envelope.limit.v

\* C4, amended: len(rows) <= min(L, max(T - offset, 0)), L being the
\* effective limit (an offset past the last match leaves no row, not a
\* negative number of rows).
RowsWithinEffectiveLimit ==
    Returned =>
        /\ Len(response.envelope[PayloadKey])
              <= Min(response.envelope.limit.v,
                     Max(MatchCount - request.offset, 0))
        /\ response.envelope.count = PyInt(Len(response.envelope[PayloadKey]))

\* The limit cuts the page short, and so does the end of the result
RowsWithinEffectiveLimitWitness ==
    /\ Returned
    /\ request.limit = 2
    /\ request.offset = 1
    /\ MatchCount = 2
    /\ Len(response.envelope[PayloadKey]) = 1

\* C6: no limit and no offset makes a paginated call fail.
PaginationNeverRejected ==
    (pc = "done" /\ request.tool \in Paged /\ request.faults = NoFaults) =>
        response.status = "success"

----------------------------------------------------------------------------
(* The tools that take a limit only *)

RecentSignalsLimitMax == 500
RecentSignalsLimitDefault == 50
UnprocessedLimitMax == 1000
UnprocessedLimitDefault == 100
OpenCallsLimitMax == 1000
OpenCallsLimitDefault == 100
MarketContextLimitMax == 500
MarketContextLimitDefault == 50
TopPerformersLimitMax == 50
TopPerformersLimitDefault == 10

\* (datetime.now() - timedelta(days=days)).date()
StartDate(days) == PyDate(Today - days)

LimitTail == <<TailItem("LIMIT", "%s")>>

\* The envelope of a tool that lists rows: the rows under key, their count
\* where the tool reports it, the time, the status and the tool's own fields
ListEnvelope(key, rows, extra) ==
    (key :> rows) @@ [timestamp |-> Timestamp, status |-> "success"] @@ extra

CountOf(rows) == [count |-> PyInt(Len(rows))]

ListResult(run, key, description, extra) ==
    IF run.raised
    THEN ToolError(run, description)
    ELSE ToolSuccess(run, ListEnvelope(key, run.values[1],
                                       CountOf(run.values[1]) @@ extra))

\* insider_transactions.py: get_recent_signals
RecentOrder == <<Key("filing_date", TRUE, FALSE), Key("signal_score", TRUE, TRUE)>>

RecentFilters(req) ==
    ApplyFilters(<<Filter(Truthy(req.signal_quality),
                          Cond("signal_quality", "=", "%s"),
                          req.signal_quality)>>,
                 <<Cond("signal_generated", "=", "TRUE"),
                   Cond("filing_date", ">=", "%s")>>,
                 <<StartDate(req.days)>>)

RecentQuery(run, f, limit, fault) ==
    Then(run,
         Select("SELECT *", "insider_transactions", f.conditions, RecentOrder,
                LimitTail),
         Append(f.params, PyInt(limit)), FALSE, fault)

get_recent_signals(cp, st, req) ==
    ListResult(
        RecentQuery(Start(cp, st), RecentFilters(req),
                    Clamp(req.limit, RecentSignalsLimitMax,
                          RecentSignalsLimitDefault),
                    req.fault),
        "signals", "Failed to retrieve recent signals: ",
        [days |-> PyInt(req.days)])

\* insider_transactions.py: get_unprocessed_transactions
UnprocessedQuery(run, limit, fault) ==
    Then(run,
         Select("SELECT *", "insider_transactions",
                <<Cond("signal_generated", "=", "FALSE")>>,
                <<Key("filing_date", TRUE, FALSE)>>, LimitTail),
         <<PyInt(limit)>>, FALSE, fault)

get_unprocessed_transactions(cp, st, req) ==
    ListResult(
        UnprocessedQuery(Start(cp, st),
                         Clamp(req.limit, UnprocessedLimitMax,
                               UnprocessedLimitDefault),
                         req.fault),
        "transactions", "Failed to retrieve unprocessed transactions: ",
        <<>>)

\* llm_calls.py: get_open_calls
OpenCallsQuery(run, limit, fault) ==
    Then(run,
         Select("SELECT *", "llm_calls", <<Cond("is_closed", "=", "FALSE")>>,
                CallOrder, LimitTail),
         <<PyInt(limit)>>, FALSE, fault)

get_open_calls(cp, st, req) ==
    ListResult(
        OpenCallsQuery(Start(cp, st),
                       Clamp(req.limit, OpenCallsLimitMax, OpenCallsLimitDefault),
                       req.fault),
        "calls", "Failed to retrieve open calls: ", <<>>)

----------------------------------------------------------------------------
(* market_context.py: get_market_context *)

\* json.dumps of a list of strings: ["a", "b"]
RECURSIVE JoinQuoted(_)
JoinQuoted(items) ==
    IF items = <<>> THEN <<>>
    ELSE <<"\"">> \o Head(items) \o <<"\"">>
         \o (IF Tail(items) = <<>> THEN <<>>
             ELSE <<",", " ">> \o JoinQuoted(Tail(items)))

JsonDumps(x) == <<"[">> \o JoinQuoted(x.v) \o <<"]">>

\* sub in s
Contains(s, sub) ==
    \E k \in 0..(Len(s) - Len(sub)) : SubSeq(s, k + 1, k + Len(sub)) = sub

JsonFields ==
    <<"sector_activity", "ceo_cfo_buys", "large_transactions", "notable_patterns">>

\* result.get(field) and batch_id in json.dumps(result[field]), for some field
BatchFound(result, batch_id) ==
    \E i \in 1..Len(JsonFields) :
        /\ Truthy(result[JsonFields[i]])
        /\ Contains(JsonDumps(result[JsonFields[i]]), batch_id.v)

\* A tool that returns the timestamp-filtered result as it is
BatchUnfiltered(results, batch_id) == results

\* if batch_id and results: keep the results in which batch_id is found
BatchFiltered(results, batch_id) ==
    IF Truthy(batch_id) /\ results # <<>>
    THEN LET Found(result) == BatchFound(result, batch_id)
         IN  SelectSeq(results, Found)
    ELSE results

ContextFilters(req) ==
    ApplyFilters(<<Filter(Truthy(req.start_timestamp),
                          Cond("timestamp", ">=", "%s"), req.start_timestamp),
                   Filter(Truthy(req.end_timestamp),
                          Cond("timestamp", "<=", "%s"), req.end_timestamp)>>,
                 <<>>, <<>>)

ContextQuery(run, f, limit, fault) ==
    Then(run,
         Select("SELECT *", "market_context", WhereClause(f.conditions),
                <<Key("timestamp", TRUE, FALSE)>>, LimitTail),
         Append(f.params, PyInt(limit)), FALSE, fault)

ContextEnvelope(results, req, limit) ==
    [market_contexts |-> results, count |-> PyInt(Len(results)),
     limit |-> PyInt(limit),
     filters |-> [start_timestamp |-> req.start_timestamp,
                  end_timestamp |-> req.end_timestamp,
                  batch_id |-> req.batch_id],
     timestamp |-> Timestamp, status |-> "success"]

ContextResult(run, req, limit) ==
    IF run.raised
    THEN ToolError(run, "Failed to retrieve market context: ")
    ELSE ToolSuccess(run, ContextEnvelope(
                              BatchFiltered(run.values[1], req.batch_id),
                              req, limit))

ContextPage(cp, st, req, limit) ==
    ContextResult(ContextQuery(Start(cp, st), ContextFilters(req), limit,
                               req.fault),
                  req, limit)

get_market_context(cp, st, req) ==
    ContextPage(cp, st, req,
                Clamp(req.limit, MarketContextLimitMax, MarketContextLimitDefault))

----------------------------------------------------------------------------
(* analytics.py: get_top_performers *)

ByTicker == <<"ticker", "company_name">>

TopByPnl ==
    SelectGrouped("llm_calls", ByTicker,
        <<GroupCol("ticker"), GroupCol("company_name"), CountAll("call_count"),
          Sum("total_pnl", "pnl_dollars"), Avg("avg_pnl", "pnl_dollars"),
          Avg("avg_price_change_pct", "price_change_pct"),
          CountCase("winning_calls", "pnl_dollars", ">", PyInt(0))>>,
        <<Cond("entry_date", ">=", "%s"), Cond("is_closed", "=", "TRUE")>>,
        <<Key("total_pnl", TRUE, TRUE)>>, LimitTail)

TopByPriceChange ==
    SelectGrouped("llm_calls", ByTicker,
        <<GroupCol("ticker"), GroupCol("company_name"), CountAll("call_count"),
          Avg("avg_price_change_pct", "price_change_pct"),
          Sum("total_pnl", "pnl_dollars")>>,
        <<Cond("entry_date", ">=", "%s"), Cond("is_closed", "=", "TRUE")>>,
        <<Key("avg_price_change_pct", TRUE, TRUE)>>, LimitTail)

TopByTransactionValue ==
    SelectGrouped("insider_transactions", ByTicker,
        <<GroupCol("ticker"), GroupCol("company_name"),
          CountAll("transaction_count"),
          Sum("total_transaction_value", "transaction_value"),
          Avg("avg_transaction_value", "transaction_value"),
          CountDistinct("unique_insiders", "insider_name")>>,
        <<Cond("transaction_date", ">=", "%s")>>,
        <<Key("total_transaction_value", TRUE, TRUE)>>, LimitTail)

\* A choice that takes the price change variant for an unknown metric
TopQueryStrict(metric) ==
    IF metric = "pnl" THEN TopByPnl
    ELSE IF metric = "transaction_value" THEN TopByTransactionValue
    ELSE TopByPriceChange

\* if metric == "pnl" ... elif metric == "price_change" ... else
TopQuery(metric) ==
    IF metric = "pnl" THEN TopByPnl
    ELSE IF metric = "price_change" THEN TopByPriceChange
    ELSE TopByTransactionValue

TopEnvelope(results, req, limit) ==
    [top_performers |-> results, metric |-> req.metric,
     days |-> PyInt(req.days), limit |-> PyInt(limit),
     timestamp |-> Timestamp, status |-> "success"]

TopResult(run, req, limit) ==
    IF run.raised
    THEN ToolError(run, "Failed to retrieve top performers: ")
    ELSE ToolSuccess(run, TopEnvelope(run.values[1], req, limit))

TopPage(cp, st, req, limit) ==
    TopResult(Then(Start(cp, st), TopQuery(req.metric),
                   <<StartDate(req.days), PyInt(limit)>>, FALSE, req.fault),
              req, limit)

get_top_performers(cp, st, req) ==
    TopPage(cp, st, req,
            Clamp(req.limit, TopPerformersLimitMax, TopPerformersLimitDefault))

----------------------------------------------------------------------------
(* Every tool that takes a limit, on limits in and out of its range *)

b1 == <<"b", "1">>
b2 == <<"b", "2">>

\* Row i of a table of market contexts, of one of three kinds
CtxOfKind(k, i) ==
    CASE k = 1 -> CtxRow(i, PyDate(5), None, JsonList(<<b1>>))
      [] k = 2 -> CtxRow(i, PyDate(7), JsonList(<<>>), None)
      [] OTHER -> CtxRow(i, PyDate(9), JsonList(<<b1, b2>>), None)

SmallCtxTables == {[i \in 1..Len(f) |-> CtxOfKind(f[i], i)] : f \in KindSeqs}

FixedCtxTable == <<CtxOfKind(1, 1), CtxOfKind(2, 2), CtxOfKind(3, 3)>>

LimitStores ==
    {Tables(tx, FixedCallTable, FixedCtxTable) :
        tx \in SmallTxTables \cup {BigTxTable}}
    \cup {Tables(FixedTxTable, calls, FixedCtxTable) : calls \in SmallCallTables}
    \cup {Tables(FixedTxTable, FixedCallTable, ctx) : ctx \in SmallCtxTables}

\* Limits below, inside and above each tool's range
RangeLimits == {-1, 0, 1, 2, 10, 50, 51, 100, 500, 501, 1000, 1001, 2000}

\* Look-back windows: a week, and one that reaches the rows of the tables
Windows == {7, Today - 5}

OneFault == {NoFault, ExecuteFails}

LimitTxRequests ==
    {TxRequest(t, None, None, None, None, None, None, l, o, NoFaults) :
        t \in {None, tsla}, l \in RangeLimits, o \in {0, 1}}

LimitCallsRequests ==
    {CallsRequest(t, None, None, None, None, None, l, o, NoFaults) :
        t \in {None, tsla}, l \in RangeLimits, o \in {0, 1}}

RecentRequests ==
    {[tool |-> "get_recent_signals", days |-> d, signal_quality |-> q,
      limit |-> l, fault |-> f] :
        d \in Windows, q \in {None, Empty, High, Bogus}, l \in RangeLimits,
        f \in OneFault}

UnprocessedRequests ==
    {[tool |-> "get_unprocessed_transactions", limit |-> l, fault |-> f] :
        l \in RangeLimits, f \in OneFault}

OpenCallsRequests ==
    {[tool |-> "get_open_calls", limit |-> l, fault |-> f] :
        l \in RangeLimits, f \in OneFault}

ContextRequests ==
    {[tool |-> "get_market_context", start_timestamp |-> a,
      end_timestamp |-> b, batch_id |-> id, limit |-> l, fault |-> f] :
        a \in {None, S(<<"6">>)}, b \in {None, S(<<"8">>)},
        id \in {None, Empty, S(b1), S(b2)}, l \in RangeLimits, f \in OneFault}

TopRequests ==
    {[tool |-> "get_top_performers", days |-> d, limit |-> l, metric |-> m,
      fault |-> f] :
        d \in Windows, l \in RangeLimits,
        m \in {"pnl", "price_change", "transaction_value", "volume", "PNL"},
        f \in OneFault}

GetRecentSignals ==
    /\ pc = "ready"
    /\ \E req \in RecentRequests :
          ToolCallEnds(req, get_recent_signals(connection_pool, store, req))

GetUnprocessedTransactions ==
    /\ pc = "ready"
    /\ \E req \in UnprocessedRequests :
          ToolCallEnds(req, get_unprocessed_transactions(connection_pool, store,
                                                         req))

GetOpenCalls ==
    /\ pc = "ready"
    /\ \E req \in OpenCallsRequests :
          ToolCallEnds(req, get_open_calls(connection_pool, store, req))

GetMarketContext ==
    /\ pc = "ready"
    /\ \E req \in ContextRequests :
          ToolCallEnds(req, get_market_context(connection_pool, store, req))

GetTopPerformers ==
    /\ pc = "ready"
    /\ \E req \in TopRequests :
          ToolCallEnds(req, get_top_performers(connection_pool, store, req))

InitLimit == InitTools(LimitStores)

NextLimit ==
    \/ GetInsiderTransactions(LimitTxRequests)
    \/ GetLlmCalls(LimitCallsRequests)
    \/ GetRecentSignals
    \/ GetUnprocessedTransactions
    \/ GetOpenCalls
    \/ GetMarketContext
    \/ GetTopPerformers
    \/ Return

SpecLimit == InitLimit /\ [][NextLimit]_vars

\* The default and the cap of each tool, as documented
Range(default, cap) == [default |-> default, cap |-> cap]

LimitRange ==
    CASE request.tool \in {"get_insider_transactions",
                           "get_unprocessed_transactions", "get_llm_calls",
                           "get_open_calls"} -> Range(100, 1000)
      [] request.tool \in {"get_recent_signals", "get_market_context"} ->
            Range(50, 500)
      [] request.tool = "get_top_performers" -> Range(10, 50)

LimitTools ==
    {"get_insider_transactions", "get_unprocessed_transactions",
     "get_llm_calls", "get_open_calls", "get_recent_signals",
     "get_market_context", "get_top_performers"}

ExpectedLimit ==
    IF request.limit < 1 \/ request.limit > LimitRange.cap
    THEN LimitRange.default
    ELSE request.limit

\* The value bound to LIMIT in the row query
LimitSent ==
    statements[1].params[Placeholders(statements[1].query.where) + 1].v

Payload ==
    CASE request.tool \in {"get_insider_transactions",
                           "get_unprocessed_transactions"} -> "transactions"
      [] request.tool \in {"get_llm_calls", "get_open_calls"} -> "calls"
      [] request.tool = "get_recent_signals" -> "signals"
      [] request.tool = "get_market_context" -> "market_contexts"
      [] request.tool = "get_top_performers" -> "top_performers"

Unfailed ==
    IF request.tool \in Paged
    THEN request.faults = NoFaults
    ELSE request.fault = NoFault

\* C5: a limit below 1 or above the tool's cap is replaced by the tool's
\* default and the call is not rejected, a limit in range is used as given
\* (100 / 1000, 50 / 500 and 10 / 50, tool by tool as documented); and
\* get_insider_transactions(ticker="tsla", limit=2000) runs with limit 100,
\* returns at most 100 rows and reports the full match count as total.
OutOfRangeLimitReplaced ==
    (pc = "done" /\ request.tool \in LimitTools) =>
        /\ statements # <<>> => LimitSent = ExpectedLimit
        /\ Unfailed => response.status = "success"
        /\ response.status = "success" =>
              /\ Len(response.envelope[Payload]) <= ExpectedLimit
              /\ "limit" \in DOMAIN response.envelope =>
                    response.envelope.limit = PyInt(ExpectedLimit)
        /\ (/\ request.tool = "get_insider_transactions"
            /\ request.ticker = tsla
            /\ request.limit = 2000) =>
              /\ response.status = "success"
              /\ response.envelope.limit = PyInt(100)
              /\ response.envelope.count.v <= 100
              /\ response.envelope.total = PyInt(MatchCount)

\* The example on a table with 105 TSLA rows: 100 of them come back
OutOfRangeLimitReplacedWitness ==
    /\ pc = "done"
    /\ request.tool = "get_insider_transactions"
    /\ request.ticker = tsla
    /\ request.limit = 2000
    /\ request.offset = 0
    /\ response.status = "success"
    /\ response.envelope.count = PyInt(100)
    /\ response.envelope.total = PyInt(105)

----------------------------------------------------------------------------
(* Derived rates *)

\* A number with two decimals, held in hundredths
PyNum(hundredths) == [t |-> "num", hundredths |-> hundredths]

\* n / d with the decimals after the second cut off
RoundDown(n, d) == n \div d

\* n / d rounded to the nearest integer, a tie going to the even one
RoundHalfEven(n, d) ==
    IF 2 * (n % d) < d THEN n \div d
    ELSE IF 2 * (n % d) > d THEN (n \div d) + 1
    ELSE IF (n \div d) % 2 = 0 THEN n \div d
    ELSE (n \div d) + 1

\* A rate that is null when there is nothing to divide by
RateOrNull(num, den) ==
    IF den > 0 THEN PyNum(RoundHalfEven(10000 * num, den)) ELSE None

\* round((num / den * 100) if den > 0 else 0, 2)
Rate(num, den) ==
    IF den > 0 THEN PyNum(RoundHalfEven(10000 * num, den)) ELSE PyNum(0)

\* result.get(key, 0) or 0
OrZero(result, key) ==
    IF key \in DOMAIN result /\ Truthy(result[key]) THEN result[key].v ELSE 0

IsTrue == PyBool(TRUE)
IsFalse == PyBool(FALSE)
Medium == S(<<"m", "e", "d", "i", "u", "m">>)

\* result.get on the None that fetchone returns for an empty result
NoneHasNoGet == "'NoneType' object has no attribute 'get'"

\* The body has ended at a statement that raised, or at result.get on None
Failed(run, results) ==
    \/ run.raised
    \/ \E i \in 1..Len(results) : results[i] = None

FailedWith(run, description) ==
    IF run.raised
    THEN ToolError(run, description)
    ELSE ToolError([run EXCEPT !.err = NoneHasNoGet], description)

----------------------------------------------------------------------------
(* llm_calls.py: get_call_performance *)

PerformanceColumns ==
    <<CountAll("total_calls"),
      CountCase("closed_calls", "is_closed", "=", IsTrue),
      CountCase("open_calls", "is_closed", "=", IsFalse),
      Avg("avg_price_change_pct", "price_change_pct"),
      Sum("total_pnl", "pnl_dollars"),
      Avg("avg_pnl", "pnl_dollars"),
      Avg("avg_holding_days", "holding_days"),
      CountCase("winning_calls", "pnl_dollars", ">", PyInt(0)),
      CountCase("losing_calls", "pnl_dollars", "<", PyInt(0)),
      CountCase("pending_calls", "pnl_dollars", "IS NULL", None)>>

PerformanceFilters(req) ==
    ApplyFilters(<<Filter(Truthy(req.ticker), Cond("ticker", "=", "%s"),
                          UpperOf(req.ticker)),
                   Filter(Truthy(req.recommendation),
                          Cond("recommendation", "=", "%s"),
                          UpperOf(req.recommendation))>>,
                 <<Cond("entry_date", ">=", "%s")>>,
                 <<StartDate(req.days)>>)

PerformanceQuery(run, f, fault) ==
    Then(run, SelectAggregates("llm_calls", PerformanceColumns, f.conditions),
         f.params, TRUE, fault)

\* result['win_rate_pct'] = round(win_rate, 2)
WithWinRate(result) ==
    [k \in DOMAIN result \cup {"win_rate_pct"} |->
        IF k = "win_rate_pct"
        THEN Rate(OrZero(result, "winning_calls"), OrZero(result, "closed_calls"))
        ELSE result[k]]

PerformanceEnvelope(result, req) ==
    [performance |-> WithWinRate(result), days |-> PyInt(req.days),
     filters |-> [ticker |-> req.ticker, recommendation |-> req.recommendation],
     timestamp |-> Timestamp, status |-> "success"]

PerformanceResult(run, req) ==
    IF Failed(run, run.values)
    THEN FailedWith(run, "Failed to retrieve call performance: ")
    ELSE ToolSuccess(run, PerformanceEnvelope(run.values[1], req))

get_call_performance(cp, st, req) ==
    PerformanceResult(PerformanceQuery(Start(cp, st), PerformanceFilters(req),
                                       req.fault),
                      req)

----------------------------------------------------------------------------
(* analytics.py: get_portfolio_summary *)

PortfolioCallColumns ==
    <<CountAll("total_calls"),
      CountCase("closed_calls", "is_closed", "=", IsTrue),
      CountCase("open_calls", "is_closed", "=", IsFalse),
      Sum("total_pnl", "pnl_dollars"),
      Avg("avg_pnl", "pnl_dollars"),
      Avg("avg_price_change_pct", "price_change_pct"),
      CountCase("winning_calls", "pnl_dollars", ">", PyInt(0)),
      CountCase("losing_calls", "pnl_dollars", "<", PyInt(0))>>

PortfolioTxColumns ==
    <<CountAll("total_transactions"),
      CountDistinct("unique_tickers", "ticker"),
      CountDistinct("unique_insiders", "insider_name"),
      Sum("total_transaction_value", "transaction_value"),
      CountCase("signals_generated", "signal_generated", "=", IsTrue),
      CountCase("alerts_sent", "alert_sent", "=", IsTrue)>>

\* calls_query, then transactions_query, each bound with (start_date,)
PortfolioQueries(run, start_date, faults) ==
    Then(Then(run,
              SelectAggregates("llm_calls", PortfolioCallColumns,
                               <<Cond("entry_date", ">=", "%s")>>),
              <<start_date>>, TRUE, faults[1]),
         SelectAggregates("insider_transactions", PortfolioTxColumns,
                          <<Cond("transaction_date", ">=", "%s")>>),
         <<start_date>>, TRUE, faults[2])

PortfolioEnvelope(calls_result, transactions_result, req) ==
    [portfolio_summary |->
        [llm_calls |-> calls_result,
         insider_transactions |-> transactions_result,
         win_rate_pct |-> Rate(OrZero(calls_result, "winning_calls"),
                               OrZero(calls_result, "closed_calls"))],
     days |-> PyInt(req.days), timestamp |-> Timestamp, status |-> "success"]

\* calls_result.get is the only use of a result that fails on None
PortfolioResult(run, req) ==
    IF Failed(run, SubSeq(run.values, 1, 1))
    THEN FailedWith(run, "Failed to retrieve portfolio summary: ")
    ELSE ToolSuccess(run, PortfolioEnvelope(run.values[1], run.values[2], req))

get_portfolio_summary(cp, st, req) ==
    PortfolioResult(PortfolioQueries(Start(cp, st), StartDate(req.days),
                                     req.faults),
                    req)

----------------------------------------------------------------------------
(* analytics.py: get_signal_statistics *)

SignalColumns ==
    <<CountAll("total_transactions"),
      CountCase("signals_generated", "signal_generated", "=", IsTrue),
      CountCase("signals_pending", "signal_generated", "=", IsFalse),
      CountCase("alerts_sent", "alert_sent", "=", IsTrue),
      CountCase("high_quality_signals", "signal_quality", "=", High),
      CountCase("medium_quality_signals", "signal_quality", "=", Medium),
      CountCase("low_quality_signals", "signal_quality", "=", Low),
      Avg("avg_signal_score", "signal_score"),
      Avg("avg_final_signal_score", "final_signal_score"),
      CountCase("auto_rejected_signals", "auto_rejected", "=", IsTrue)>>

\* result['signal_generation_rate_pct'] and result['alert_rate_pct']
WithSignalRates(result) ==
    [k \in DOMAIN result \cup {"signal_generation_rate_pct", "alert_rate_pct"} |->
        CASE k = "signal_generation_rate_pct" ->
                Rate(OrZero(result, "signals_generated"),
                     OrZero(result, "total_transactions"))
          [] k = "alert_rate_pct" ->
                Rate(OrZero(result, "alerts_sent"),
                     OrZero(result, "signals_generated"))
          [] OTHER -> result[k]]

SignalEnvelope(result, req) ==
    [statistics |-> WithSignalRates(result), days |-> PyInt(req.days),
     timestamp |-> Timestamp, status |-> "success"]

SignalResult(run, req) ==
    IF Failed(run, run.values)
    THEN FailedWith(run, "Failed to retrieve signal statistics: ")
    ELSE ToolSuccess(run, SignalEnvelope(run.values[1], req))

get_signal_statistics(cp, st, req) ==
    SignalResult(Then(Start(cp, st),
                      SelectAggregates("insider_transactions", SignalColumns,
                                       <<Cond("transaction_date", ">=", "%s")>>),
                      <<StartDate(req.days)>>, TRUE, req.fault),
                 req)

----------------------------------------------------------------------------
(* The tools that derive rates, on tables of calls and transactions of *)
(* every mix of kinds                                                   *)

Recent == PyDate(Today - 10)
LastQuarter == PyDate(Today - 100)
LongAgo == PyDate(Today - 400)

\* Row i of a table of calls: three closed AAPL calls with a profit, a loss
\* and a profit, an open AAPL call without and one with a profit so far, a
\* TSLA call, and an AAPL call from before any window
StatCall(k, i) ==
    CASE k = 1 -> CallRow(i, AAPL, Apple, Closed, Buy, TRUE, Recent, Recent,
                          PyInt(100), PyInt(10))
      [] k = 2 -> CallRow(i, AAPL, Apple, Closed, Sell, TRUE, Recent, Recent,
                          PyInt(-50), PyInt(-5))
      [] k = 3 -> CallRow(i, AAPL, Apple, Closed, Buy, TRUE, LastQuarter,
                          LastQuarter, PyInt(25), PyInt(2))
      [] k = 4 -> CallRow(i, AAPL, Apple, Open, Buy, FALSE, Recent, Recent,
                          None, None)
      [] k = 5 -> CallRow(i, AAPL, Apple, Open, Buy, FALSE, Recent, Recent,
                          PyInt(40), PyInt(4))
      [] k = 6 -> CallRow(i, TSLA, Tesla, Closed, Buy, TRUE, Recent, Recent,
                          PyInt(10), PyInt(1))
      [] OTHER -> CallRow(i, AAPL, Apple, Closed, Buy, TRUE, LongAgo, LongAgo,
                          PyInt(60), PyInt(6))

\* Row i of a table of transactions: with a signal and an alert, with a
\* signal only, with an alert but no signal, with neither, from before any
\* window, and without a transaction date
StatTx(k, i) ==
    CASE k = 1 -> TxRow(i, S(<<"x", Digits[(i % 10) + 1]>>), AAPL, Apple, AlBo,
                        Recent, Recent, TRUE, High, PyInt(90), TRUE, PyInt(10))
      [] k = 2 -> TxRow(i, S(<<"x", Digits[(i % 10) + 1]>>), AAPL, Apple, Bo,
                        Recent, Recent, TRUE, Low, PyInt(20), FALSE, PyInt(30))
      [] k = 3 -> TxRow(i, S(<<"x", Digits[(i % 10) + 1]>>), TSLA, Tesla, Bo,
                        LastQuarter, LastQuarter, FALSE, None, None, TRUE, None)
      [] k = 4 -> TxRow(i, S(<<"x", Digits[(i % 10) + 1]>>), TSLA, Tesla, AlBo,
                        Recent, Recent, FALSE, Medium, PyInt(50), FALSE,
                        PyInt(5))
      [] k = 5 -> TxRow(i, S(<<"x", Digits[(i % 10) + 1]>>), AAPL, Apple, AlBo,
                        LongAgo, LongAgo, TRUE, High, PyInt(80), TRUE,
                        PyInt(70))
      [] OTHER -> TxRow(i, S(<<"x", Digits[(i % 10) + 1]>>), AAPL, Apple, AlBo,
                        None, Recent, TRUE, High, PyInt(60), TRUE, PyInt(20))

StatRows == 5
StatCallKinds == 7
StatTxKinds == 6

\* The mixes of at most rows kinds out of kinds
Mixes(rows, kinds) ==
    UNION {{f \in [1..n -> 1..kinds] :
                \A i \in 1..(n - 1) : f[i] <= f[i + 1]} : n \in 0..rows}

StatCallTables ==
    {[i \in 1..Len(f) |-> StatCall(f[i], i)] : f \in Mixes(StatRows, StatCallKinds)}
StatTxTables ==
    {[i \in 1..Len(f) |-> StatTx(f[i], i)] : f \in Mixes(StatRows, StatTxKinds)}

StatStores ==
    {Tables(<<StatTx(1, 1), StatTx(3, 2)>>, calls, <<>>) : calls \in StatCallTables}
    \cup {Tables(tx, <<StatCall(2, 1), StatCall(5, 2)>>, <<>>) : tx \in StatTxTables}

aapl == S(<<"a", "a", "p", "l">>)

PerformanceRequests ==
    {[tool |-> "get_call_performance", days |-> d, ticker |-> t,
      recommendation |-> r, fault |-> f] :
        d \in {30, 365}, t \in {None, Empty, aapl, AAPL},
        r \in {None, S(<<"b", "u", "y">>)}, f \in OneFault}

PortfolioRequests ==
    {[tool |-> "get_portfolio_summary", days |-> d, faults |-> f] :
        d \in {30, 365}, f \in PageFaults}

SignalRequests ==
    {[tool |-> "get_signal_statistics", days |-> d, fault |-> f] :
        d \in {30, 365}, f \in OneFault}

GetCallPerformance ==
    /\ pc = "ready"
    /\ \E req \in PerformanceRequests :
          ToolCallEnds(req, get_call_performance(connection_pool, store, req))

GetPortfolioSummary ==
    /\ pc = "ready"
    /\ \E req \in PortfolioRequests :
          ToolCallEnds(req, get_portfolio_summary(connection_pool, store, req))

GetSignalStatistics ==
    /\ pc = "ready"
    /\ \E req \in SignalRequests :
          ToolCallEnds(req, get_signal_statistics(connection_pool, store, req))

InitStats == InitTools(StatStores)

NextStats ==
    \/ GetCallPerformance
    \/ GetPortfolioSummary
    \/ GetSignalStatistics
    \/ Return

SpecStats == InitStats /\ [][NextStats]_vars

----------------------------------------------------------------------------
(* The derived rates *)

StatTools ==
    {"get_call_performance", "get_portfolio_summary", "get_signal_statistics"}

StatsUnfailed ==
    IF request.tool = "get_portfolio_summary"
    THEN request.faults = NoFaults
    ELSE request.fault = NoFault

Derived(tool) ==
    pc = "done" /\ request.tool = tool /\ response.status = "success"

Performance == response.envelope.performance
Portfolio == response.envelope.portfolio_summary
Statistics == response.envelope.statistics

\* C7: each derived rate is 0, neither an error nor null, when the count it
\* is divided by is zero, and no call fails other than by a failure of the
\* store.
ZeroDenominatorGivesZero ==
    /\ (pc = "done" /\ request.tool \in StatTools) =>
          /\ StatsUnfailed => response.status = "success"
          /\ response.status = "error" => response.message[2] = ConnectionLost
    /\ Derived("get_call_performance") =>
          (Performance.closed_calls.v = 0 => Performance.win_rate_pct = PyNum(0))
    /\ Derived("get_portfolio_summary") =>
          (Portfolio.llm_calls.closed_calls.v = 0 =>
              Portfolio.win_rate_pct = PyNum(0))
    /\ Derived("get_signal_statistics") =>
          /\ Statistics.total_transactions.v = 0 =>
                Statistics.signal_generation_rate_pct = PyNum(0)
          /\ Statistics.signals_generated.v = 0 =>
                Statistics.alert_rate_pct = PyNum(0)

\* No closed call, yet a call with a profit: the win rate is 0
ZeroDenominatorGivesZeroWitness ==
    /\ Derived("get_call_performance")
    /\ Performance.closed_calls.v = 0
    /\ Performance.winning_calls.v > 0
    /\ Performance.win_rate_pct = PyNum(0)

Percentage(rate) == rate.hundredths >= 0 /\ rate.hundredths <= 10000

\* C8: each reported rate lies between 0 and 100, its numerator counting
\* only rows that its denominator counts.
RatesWithinBounds ==
    /\ Derived("get_call_performance") => Percentage(Performance.win_rate_pct)
    /\ Derived("get_portfolio_summary") => Percentage(Portfolio.win_rate_pct)
    /\ Derived("get_signal_statistics") =>
          /\ Percentage(Statistics.signal_generation_rate_pct)
          /\ Percentage(Statistics.alert_rate_pct)

\* The AAPL calls entered in the last 365 days
InWindow == {i \in 1..Len(store.llm_calls) :
                /\ store.llm_calls[i].ticker = AAPL
                /\ store.llm_calls[i].entry_date.v >= Today - 365}

CallLike(i, closed, pnl) ==
    /\ store.llm_calls[i].is_closed = PyBool(closed)
    /\ store.llm_calls[i].pnl_dollars = pnl

\* Three closed calls with pnl_dollars 100, -50 and 25, and one open call
\* with null pnl_dollars
ExampleStore ==
    /\ Cardinality(InWindow) = 4
    /\ \E i \in InWindow : CallLike(i, TRUE, PyInt(100))
    /\ \E i \in InWindow : CallLike(i, TRUE, PyInt(-50))
    /\ \E i \in InWindow : CallLike(i, TRUE, PyInt(25))
    /\ \E i \in InWindow : CallLike(i, FALSE, None)

ExampleCall ==
    /\ pc = "done"
    /\ request.tool = "get_call_performance"
    /\ request.days = 365
    /\ request.ticker = AAPL
    /\ request.recommendation = None
    /\ request.fault = NoFault

\* C9: on a store whose AAPL rows in the window are three closed calls with
\* pnl_dollars 100, -50, 25 and one open call with null pnl_dollars,
\* get_call_performance(days=365, ticker="AAPL") returns closed_calls 3,
\* winning_calls 2, losing_calls 1, open_calls 1 and win_rate_pct 66.67.
ExamplePerformance ==
    (ExampleCall /\ ExampleStore) =>
        /\ response.status = "success"
        /\ Performance.closed_calls = PyInt(3)
        /\ Performance.winning_calls = PyInt(2)
        /\ Performance.losing_calls = PyInt(1)
        /\ Performance.open_calls = PyInt(1)
        /\ Performance.win_rate_pct = PyNum(6667)

\* The example store with a fifth call that the filters leave out
ExamplePerformanceWitness ==
    /\ ExampleCall
    /\ ExampleStore
    /\ Len(store.llm_calls) = 5
    /\ Performance.total_calls = PyInt(4)
    /\ Performance.win_rate_pct = PyNum(6667)

----------------------------------------------------------------------------
(* Lookups by identifier *)

Last(seq) == seq[Len(seq)]

ById(table) == Select("SELECT *", table, <<Cond("id", "=", "%s")>>, <<>>, <<>>)

ByTransactionId ==
    Select("SELECT *", "insider_transactions",
           <<Cond("transaction_id", "=", "%s")>>, <<>>, <<>>)

InvalidLiteral == "invalid literal for int() with base 10"

LookupEnvelope(key, result) ==
    (key :> result) @@ [timestamp |-> Timestamp, status |-> "success"]

\* raise Exception(f"<what> not found: {id}"), caught and raised again
NotFound(run, description, what, id) ==
    [ToolError(run, description) EXCEPT
        !.response.message = <<description, what, id>>]

\* if not result: raise ...; return { key: result, ... }
FoundOrNot(run, key, description, what, id) ==
    IF run.raised THEN ToolError(run, description)
    ELSE IF Last(run.values) = None THEN NotFound(run, description, what, id)
    ELSE ToolSuccess(run, LookupEnvelope(key, Last(run.values)))

\* insider_transactions.py: get_transaction_by_id
\* if transaction_id.isdigit(): the lookup by int(transaction_id), and int
\* raises ValueError on a digit that is not a decimal
NumericLookup(run, req) ==
    IF ~IsDigitStr(req.transaction_id.v) THEN run
    ELSE IF ~IsDecimalStr(req.transaction_id.v)
    THEN [run EXCEPT !.raised = TRUE, !.err = InvalidLiteral]
    ELSE Then(run, ById("insider_transactions"),
              <<PyInt(IntOfStr(req.transaction_id.v))>>, TRUE, req.faults[1])

\* if result: return it; otherwise the lookup by the transaction_id field
FieldLookup(run, req) ==
    IF run.raised THEN ToolError(run, "Failed to retrieve transaction: ")
    ELSE IF run.values # <<>> /\ Last(run.values) # None
    THEN ToolSuccess(run, LookupEnvelope("transaction", Last(run.values)))
    ELSE FoundOrNot(Then(run, ByTransactionId, <<req.transaction_id>>, TRUE,
                         req.faults[2]),
                    "transaction", "Failed to retrieve transaction: ",
                    "Transaction not found: ", req.transaction_id)

get_transaction_by_id(cp, st, req) ==
    FieldLookup(NumericLookup(Start(cp, st), req), req)

\* llm_calls.py: get_call_by_id
get_call_by_id(cp, st, req) ==
    FoundOrNot(Then(Start(cp, st), ById("llm_calls"), <<PyInt(req.call_id)>>,
                    TRUE, req.fault),
               "call", "Failed to retrieve call: ", "Call not found: ",
               PyInt(req.call_id))

\* market_context.py: get_market_context_by_id
get_market_context_by_id(cp, st, req) ==
    FoundOrNot(Then(Start(cp, st), ById("market_context"),
                    <<PyInt(req.context_id)>>, TRUE, req.fault),
               "market_context", "Failed to retrieve market context: ",
               "Market context not found: ", PyInt(req.context_id))

----------------------------------------------------------------------------
(* Lookups on tables whose transaction_id values are all different *)

\* transaction_id values: not a number, the id of another row, a number that
\* is no row's id, superscript two, and a number with a leading zero
Xids == <<<<"x", "1">>, <<"2">>, <<"7">>, <<SuperscriptTwo>>, <<"0", "1">>>>

LookupRows == 3

LookupTx(x, i) ==
    TxRow(i, S(Xids[x]), TSLA, Tesla, AlBo, PyDate(5), PyDate(6), TRUE, High,
          PyInt(90), TRUE, PyInt(10))

LookupTxTables ==
    UNION {{[i \in 1..n |-> LookupTx(f[i], i)] :
                f \in {g \in [1..n -> 1..Len(Xids)] :
                          \A i, j \in 1..n : i # j => g[i] # g[j]}} :
           n \in 0..LookupRows}

LookupStores ==
    {Tables(tx, FixedCallTable, FixedCtxTable) : tx \in LookupTxTables}
    \cup {Tables(<<>>, calls, <<>>) : calls \in SmallCallTables}
    \cup {Tables(<<>>, <<>>, ctx) : ctx \in SmallCtxTables}

AskedXids ==
    {Xids[x] : x \in 1..Len(Xids)}
    \cup {<<>>, <<"1">>, <<"3">>, <<"9">>, <<"x", "9">>}

TransactionByIdRequests ==
    {[tool |-> "get_transaction_by_id", transaction_id |-> S(x), faults |-> f] :
        x \in AskedXids, f \in PageFaults}

AskedIds == -1..(MaxRows + 1)

CallByIdRequests ==
    {[tool |-> "get_call_by_id", call_id |-> i, fault |-> f] :
        i \in AskedIds, f \in OneFault}

ContextByIdRequests ==
    {[tool |-> "get_market_context_by_id", context_id |-> i, fault |-> f] :
        i \in AskedIds, f \in OneFault}

GetTransactionById ==
    /\ pc = "ready"
    /\ \E req \in TransactionByIdRequests :
          ToolCallEnds(req, get_transaction_by_id(connection_pool, store, req))

GetCallById ==
    /\ pc = "ready"
    /\ \E req \in CallByIdRequests :
          ToolCallEnds(req, get_call_by_id(connection_pool, store, req))

GetMarketContextById ==
    /\ pc = "ready"
    /\ \E req \in ContextByIdRequests :
          ToolCallEnds(req, get_market_context_by_id(connection_pool, store, req))

InitLookup == InitTools(LookupStores)

NextLookup ==
    \/ GetTransactionById
    \/ GetCallById
    \/ GetMarketContextById
    \/ Return

SpecLookup == InitLookup /\ [][NextLookup]_vars

LookupTools ==
    {"get_transaction_by_id", "get_call_by_id", "get_market_context_by_id"}

LookupTable ==
    CASE request.tool = "get_transaction_by_id" -> store.insider_transactions
      [] request.tool = "get_call_by_id" -> store.llm_calls
      [] request.tool = "get_market_context_by_id" -> store.market_context

LookupKey ==
    CASE request.tool = "get_transaction_by_id" -> "transaction"
      [] request.tool = "get_call_by_id" -> "call"
      [] request.tool = "get_market_context_by_id" -> "market_context"

\* Does the row carry the identifier of the request
Identified(r) ==
    CASE request.tool = "get_transaction_by_id" ->
            \/ r.transaction_id = request.transaction_id
            \/ /\ IsDecimalStr(request.transaction_id.v)
               /\ r.id = PyInt(IntOfStr(request.transaction_id.v))
      [] request.tool = "get_call_by_id" -> r.id = PyInt(request.call_id)
      [] request.tool = "get_market_context_by_id" ->
            r.id = PyInt(request.context_id)

LookupUnfailed ==
    IF request.tool = "get_transaction_by_id"
    THEN request.faults = NoFaults
    ELSE request.fault = NoFault

\* "<what> not found: <the identifier asked for>"
NotFoundMessage ==
    CASE request.tool = "get_transaction_by_id" ->
            <<"Transaction not found: ", request.transaction_id>>
      [] request.tool = "get_call_by_id" ->
            <<"Call not found: ", PyInt(request.call_id)>>
      [] request.tool = "get_market_context_by_id" ->
            <<"Market context not found: ", PyInt(request.context_id)>>

NotFoundRaised ==
    /\ response.status = "error"
    /\ Len(response.message) = 3
    /\ SubSeq(response.message, 2, 3) = NotFoundMessage

\* C10: a lookup by identifier returns the record that carries the
\* identifier when there is one, and raises a not-found error when there is
\* none; it never succeeds with another record or none.
LookupFindsOrRaisesNotFound ==
    (pc = "done" /\ request.tool \in LookupTools /\ LookupUnfailed) =>
        IF \E i \in 1..Len(LookupTable) : Identified(LookupTable[i])
        THEN /\ response.status = "success"
             /\ \E i \in 1..Len(LookupTable) :
                   /\ response.envelope[LookupKey] = LookupTable[i]
                   /\ Identified(LookupTable[i])
        ELSE NotFoundRaised

----------------------------------------------------------------------------
(* execute_write: commit or roll back *)

\* The step in which a direct call of execute_write ends
WriteEnds == pc = "ready" /\ pc' = "done" /\ request'.tool = "execute_write"

\* The call got a connection and handed its statement to the cursor
WriteSent == statements' # <<>>

\* cur.execute returned: nothing failed in it and the statement binds its
\* one placeholder
WriteExecuted ==
    /\ WriteSent
    /\ request'.fault.at # "execute"
    /\ Len(statements'[1].params) = 1

\* The rows the statement updates: those whose id is the bound value
Affected ==
    {i \in 1..Len(store.insider_transactions) :
        store.insider_transactions[i].id = statements'[1].params[1]}

\* The store once the update of the affected rows is committed
AlertsMarked ==
    [store EXCEPT !.insider_transactions =
        [i \in 1..Len(store.insider_transactions) |->
            IF i \in Affected
            THEN [store.insider_transactions[i] EXCEPT !.alert_sent = PyBool(TRUE)]
            ELSE store.insider_transactions[i]]]

\* The error of the step that failed: the acquisition, the statement or the
\* commit
WriteFailure ==
    IF ~WriteSent THEN "could not connect to server"
    ELSE IF request'.fault.at = "execute" THEN ConnectionLost
    ELSE IF Len(statements'[1].params) # 1
    THEN "not all arguments converted during string formatting"
    ELSE ConnectionLost

\* The failure of the statement or of the commit closed the connection
WriteClosedConnection ==
    /\ WriteSent
    /\ request'.fault.broken
    /\ request'.fault.at = "execute" \/ (WriteExecuted /\ request'.fault.at = "commit")

\* An execute_write step: commit is called exactly when cur.execute
\* returned; the call returns exactly when the commit succeeded, with the
\* number of affected rows and their update in the store; otherwise it
\* raises, after a rollback when it had a connection, and the store is as it
\* was. masked says which failures reach the caller as the error of the
\* rollback instead of their own.
WriteStep(masked) ==
    /\ Count(conn_ops', "commit") = IF WriteExecuted THEN 1 ELSE 0
    /\ response'.status = "returned"
          <=> (WriteExecuted /\ request'.fault.at # "commit")
    /\ IF response'.status = "returned"
       THEN /\ response'.value = PyInt(Cardinality(Affected))
            /\ conn_ops' = <<"getconn", "execute", "commit", "putconn">>
            /\ store' = AlertsMarked
       ELSE /\ response'.status = "raised"
            /\ store' = store
            /\ WriteSent =>
                  SubSeq(conn_ops', Len(conn_ops') - 1, Len(conn_ops'))
                      = <<"rollback", "putconn">>
            /\ response'.err = IF masked THEN "connection already closed"
                               ELSE WriteFailure

\* C11 as stated: execute_write commits exactly when the statement executes
\* and then returns the affected-row count; when the statement or the commit
\* raises, the connection is rolled back, nothing is committed, no effect of
\* the statement is visible in the store, and the error that was raised is
\* the one the caller gets.
WriteErrorPropagates == [][WriteEnds => WriteStep(FALSE)]_vars

\* C11, amended: the same, except that the caller gets the error that was
\* raised only while the connection is open; when the failure closed the
\* connection, the rollback on it raises and the caller gets that error,
\* "connection already closed".
WriteCommitsOrRollsBack == [][WriteEnds => WriteStep(WriteClosedConnection)]_vars

\* A write whose commit failed on a connection that stayed open: rolled
\* back, raised, and the row it selected is not marked
WriteCommitsOrRollsBackWitness ==
    /\ pc = "done"
    /\ request.tool = "execute_write"
    /\ request.fault = [at |-> "commit", broken |-> FALSE]
    /\ statements[1].params = <<PyInt(1)>>
    /\ conn_ops = <<"getconn", "execute", "commit", "rollback", "putconn">>
    /\ response = [status |-> "raised", err |-> ConnectionLost]
    /\ store = PoolStore

----------------------------------------------------------------------------
(* db.py: close_db_pool; main.py: health_check *)

\* close_db_pool: when the pool exists, closeall() and the global is unset
close_db_pool(cp) ==
    IF cp.state # "none"
    THEN [cp |-> NoPool, ops |-> <<"closeall">>]
    ELSE [cp |-> cp, ops |-> <<>>]

\* int(os.getenv("PORT", 8000)), with PORT unset
port == 8000

HealthEnvelope(db_status) ==
    [status |-> IF db_status = "connected" THEN "healthy" ELSE "degraded",
     timestamp |-> Timestamp, server |-> "investment-tracking-mcp",
     port |-> PyInt(port), database |-> db_status, version |-> "1.0.0"]

\* The envelope of health_check's except clause
UnhealthyEnvelope(err) ==
    [status |-> "unhealthy", timestamp |-> Timestamp,
     server |-> "investment-tracking-mcp", port |-> PyInt(port),
     database |-> "error", error |-> err, version |-> "1.0.0"]

\* health_check once test_connection has ended as o
HealthResult(o) ==
    [cp |-> o.cp, store |-> o.store, statements |-> Sent(o, SelectOne, <<>>),
     conn_ops |-> o.ops,
     response |->
        [status |-> "success",
         envelope |->
            IF o.raised THEN UnhealthyEnvelope(o.err)
            ELSE HealthEnvelope(IF Truthy(o.value) THEN "connected"
                                ELSE "disconnected")]]

health_check(cp, st, fault) == HealthResult(test_connection(cp, st, fault))

----------------------------------------------------------------------------
(* The server from start to shutdown: the executor functions, the health *)
(* check and the closing of the pool                                      *)

CloseDbPool ==
    /\ pc = "ready"
    /\ connection_pool' = close_db_pool(connection_pool).cp
    /\ conn_ops' = close_db_pool(connection_pool).ops
    /\ request' = [tool |-> "close_db_pool", fault |-> NoFault]
    /\ response' = [status |-> "returned", value |-> None]
    /\ statements' = <<>>
    /\ pc' = "done"
    /\ UNCHANGED store

HealthCheck ==
    /\ pc = "ready"
    /\ \E fault \in Faults :
          ToolCallEnds([tool |-> "health_check", fault |-> fault],
                       health_check(connection_pool, store, fault))

\* main initialises the pool before it serves, and exits when it cannot
InitServer ==
    /\ connection_pool = init_db_pool(NoPool, NoFault).cp
    /\ store = PoolStore
    /\ pc = "ready"
    /\ request = NoRequest
    /\ response = NoResponse
    /\ statements = <<>>
    /\ conn_ops = <<>>

NextServer ==
    \/ CloseDbPool
    \/ HealthCheck
    \/ DbExecuteQuery
    \/ DbExecuteWrite
    \/ DbTestConnection
    \/ Return

SpecServer == InitServer /\ [][NextServer]_vars

\* The server started with its pool, so there is no pool only once
\* close_db_pool has run
PoolClosed == connection_pool = NoPool

\* C12: once close_db_pool has run the pool stays closed: no later call
\* re-creates it, none gets a connection or sends a statement, and the
\* executor functions raise.
PoolStaysClosed ==
    [][PoolClosed =>
          /\ PoolClosed'
          /\ Count(conn_ops', "getconn") = 0
          /\ statements' = <<>>
          /\ (pc' = "done" /\ request'.tool \in {"execute_query", "execute_write"})
                => response'.status = "raised"]_vars

\* The probe ran its query and nothing made it roll back
ProbeSucceeded ==
    /\ Count(conn_ops, "execute") = 1
    /\ Count(conn_ops, "rollback") = 0

HealthPair == <<response.envelope.status, response.envelope.database>>

\* C13: health_check never raises. It returns healthy/connected exactly when
\* the probe query succeeded, degraded/disconnected when the probe failed in
\* the pool's initialisation, the acquisition or the query, and no pair other
\* than those two and unhealthy/error.
HealthCheckDowngrades ==
    (pc = "done" /\ request.tool = "health_check") =>
        /\ response.status = "success"
        /\ HealthPair \in {<<"healthy", "connected">>,
                           <<"degraded", "disconnected">>,
                           <<"unhealthy", "error">>}
        /\ HealthPair = <<"healthy", "connected">> <=> ProbeSucceeded
        /\ ~ProbeSucceeded => HealthPair = <<"degraded", "disconnected">>
        /\ request.fault = NoFault => ProbeSucceeded
        /\ request.fault.at = "execute" => ~ProbeSucceeded
        /\ statements = <<>> => ~ProbeSucceeded

\* A health check that could not create the pool: degraded, and no pool
HealthCheckDowngradesWitness ==
    /\ pc = "done"
    /\ request.tool = "health_check"
    /\ request.fault.at = "init"
    /\ connection_pool = NoPool
    /\ statements = <<>>
    /\ HealthPair = <<"degraded", "disconnected">>

----------------------------------------------------------------------------
(* insider_transactions.py: get_insider_stats *)

InsiderStatsColumns ==
    <<CountAll("total_transactions"),
      CountDistinct("unique_tickers", "ticker"),
      CountDistinct("unique_insiders", "insider_name"),
      Sum("total_value", "transaction_value"),
      Avg("avg_value", "transaction_value"),
      Sum("total_shares", "shares"),
      CountCase("signals_generated", "signal_generated", "=", IsTrue),
      CountCase("alerts_sent", "alert_sent", "=", IsTrue)>>

InsiderStatsFilters(req) ==
    ApplyFilters(<<Filter(Truthy(req.ticker), Cond("ticker", "=", "%s"),
                          UpperOf(req.ticker)),
                   Filter(Truthy(req.insider_name),
                          Cond("insider_name", "ILIKE", "%s"),
                          WrapOf(req.insider_name))>>,
                 <<Cond("transaction_date", ">=", "%s")>>,
                 <<StartDate(req.days)>>)

InsiderStatsEnvelope(result, req) ==
    [statistics |-> result, days |-> PyInt(req.days),
     filters |-> [ticker |-> req.ticker, insider_name |-> req.insider_name],
     timestamp |-> Timestamp, status |-> "success"]

InsiderStatsResult(run, req) ==
    IF run.raised
    THEN ToolError(run, "Failed to retrieve insider statistics: ")
    ELSE ToolSuccess(run, InsiderStatsEnvelope(run.values[1], req))

InsiderStatsQuery(run, f, fault) ==
    Then(run,
         SelectAggregates("insider_transactions", InsiderStatsColumns,
                          f.conditions),
         f.params, TRUE, fault)

get_insider_stats(cp, st, req) ==
    InsiderStatsResult(InsiderStatsQuery(Start(cp, st), InsiderStatsFilters(req),
                                         req.fault),
                       req)

----------------------------------------------------------------------------
(* llm_calls.py: get_calls_by_batch *)

CallsByBatchQuery ==
    Select("SELECT *", "llm_calls", <<Cond("batch_id", "=", "%s")>>,
           <<Key("rank", FALSE, FALSE), Key("call_date", TRUE, FALSE)>>, <<>>)

get_calls_by_batch(cp, st, req) ==
    ListResult(Then(Start(cp, st), CallsByBatchQuery, <<req.batch_id>>, FALSE,
                    req.fault),
               "calls", "Failed to retrieve calls by batch: ",
               [batch_id |-> req.batch_id])

----------------------------------------------------------------------------
(* market_context.py: get_latest_market_context, get_market_context_summary *)

LatestQuery ==
    Select("SELECT *", "market_context", <<>>, <<Key("timestamp", TRUE, FALSE)>>,
           <<TailLiteral("LIMIT", 1)>>)

\* if not result: the envelope with a message and no record
LatestEnvelope(result) ==
    IF result = None
    THEN [market_context |-> None,
          message |-> "No market context records found",
          timestamp |-> Timestamp, status |-> "success"]
    ELSE [market_context |-> result, timestamp |-> Timestamp,
          status |-> "success"]

LatestResult(run) ==
    IF run.raised
    THEN ToolError(run, "Failed to retrieve latest market context: ")
    ELSE ToolSuccess(run, LatestEnvelope(run.values[1]))

get_latest_market_context(cp, st, req) ==
    LatestResult(Then(Start(cp, st), LatestQuery, <<>>, TRUE, req.fault))

SummaryColumns ==
    <<CountAll("total_records"), MinOf("earliest_timestamp", "timestamp"),
      MaxOf("latest_timestamp", "timestamp"),
      Avg("avg_batch_size", "batch_size"), Sum("total_batch_size", "batch_size")>>

SummaryResult(run, req) ==
    IF run.raised
    THEN ToolError(run, "Failed to retrieve market context summary: ")
    ELSE ToolSuccess(run, [summary |-> run.values[1], days |-> PyInt(req.days),
                           timestamp |-> Timestamp, status |-> "success"])

\* start_timestamp is the ISO form of now minus the days, which the store
\* reads back as that instant
get_market_context_summary(cp, st, req) ==
    SummaryResult(Then(Start(cp, st),
                       SelectAggregates("market_context", SummaryColumns,
                                        <<Cond("timestamp", ">=", "%s")>>),
                       <<StartDate(req.days)>>, TRUE, req.fault),
                  req)

----------------------------------------------------------------------------
(* analytics.py: get_ticker_analysis *)

TickerTxColumns ==
    <<CountAll("transaction_count"),
      CountDistinct("unique_insiders", "insider_name"),
      Sum("total_transaction_value", "transaction_value"),
      Avg("avg_transaction_value", "transaction_value"),
      Sum("total_shares", "shares"),
      CountCase("signals_generated", "signal_generated", "=", IsTrue),
      CountCase("high_quality_signals", "signal_quality", "=", High),
      MaxOf("latest_transaction_date", "transaction_date")>>

TickerCallColumns ==
    <<CountAll("call_count"),
      CountCase("closed_calls", "is_closed", "=", IsTrue),
      CountCase("open_calls", "is_closed", "=", IsFalse),
      Avg("avg_price_change_pct", "price_change_pct"),
      Sum("total_pnl", "pnl_dollars"), Avg("avg_pnl", "pnl_dollars"),
      MaxOf("latest_call_date", "entry_date")>>

\* WHERE ticker = %s AND <date column> >= %s
TickerWhere(col) == <<Cond("ticker", "=", "%s"), Cond(col, ">=", "%s")>>

RecentLimit == 10

\* SELECT * ... ORDER BY <date column> DESC LIMIT 10
TickerRecent(table, col) ==
    Select("SELECT *", table, TickerWhere(col), <<Key(col, TRUE, FALSE)>>,
           <<TailLiteral("LIMIT", RecentLimit)>>)

\* The four statements, each bound with (ticker, start_date)
TickerQueries(run, params, faults) ==
    Then(Then(Then(Then(run,
                        SelectAggregates("insider_transactions", TickerTxColumns,
                                         TickerWhere("transaction_date")),
                        params, TRUE, faults[1]),
                   SelectAggregates("llm_calls", TickerCallColumns,
                                    TickerWhere("entry_date")),
                   params, TRUE, faults[2]),
              TickerRecent("insider_transactions", "transaction_date"),
              params, FALSE, faults[3]),
         TickerRecent("llm_calls", "entry_date"), params, FALSE, faults[4])

TickerEnvelope(values, ticker, req) ==
    [ticker |-> ticker,
     analysis |-> [insider_transactions |-> values[1], llm_calls |-> values[2]],
     recent_transactions |-> values[3], recent_calls |-> values[4],
     days |-> PyInt(req.days), timestamp |-> Timestamp, status |-> "success"]

TickerResult(run, ticker, req) ==
    IF run.raised
    THEN ToolError(run, "Failed to retrieve ticker analysis: ")
    ELSE ToolSuccess(run, TickerEnvelope(run.values, ticker, req))

\* ticker = ticker.upper(), then the statements and the envelope
TickerAnalysis(cp, st, ticker, req) ==
    TickerResult(TickerQueries(Start(cp, st), <<ticker, StartDate(req.days)>>,
                               req.faults),
                 ticker, req)

get_ticker_analysis(cp, st, req) ==
    TickerAnalysis(cp, st, UpperOf(req.ticker), req)

----------------------------------------------------------------------------
(* The whole tool surface, with failures at every stage of every statement *)

\* Calls of two batches and one of none
SurfaceCalls ==
    <<[CallOfKind(1, 1) EXCEPT !.batch_id = S(b1), !.rank = PyInt(2)],
      [CallOfKind(2, 2) EXCEPT !.batch_id = S(b1), !.rank = PyInt(1)],
      [CallOfKind(3, 3) EXCEPT !.batch_id = S(b2)],
      CallOfKind(1, 4)>>

SurfaceStores ==
    {Tables(FixedTxTable, SurfaceCalls, FixedCtxTable),
     Tables(<<StatTx(1, 1), StatTx(2, 2), StatTx(4, 3)>>,
            <<StatCall(1, 1), StatCall(4, 2), StatCall(6, 3)>>, <<>>)}

\* The statements of a call, at most one of which fails, at any stage
OneFailure(n) ==
    {[i \in 1..n |-> IF i = k THEN f ELSE NoFault] : k \in 1..n, f \in Faults}

SurfaceTxRequests ==
    {TxRequest(t, n, None, None, g, q, None, l, 0, f) :
        t \in {None, tsla}, n \in {None, S(<<"b", "o">>)},
        g \in {None, PyBool(FALSE)}, q \in {None, High, Bogus},
        l \in {0, 2}, f \in OneFailure(2)}

SurfaceCallsRequests ==
    {CallsRequest(t, s, r, None, None, None, l, 0, f) :
        t \in {None, tsla}, s \in {None, S(<<"o", "p", "e", "n">>), Bogus},
        r \in {None, S(<<"b", "u", "y">>), Bogus}, l \in {0, 2},
        f \in OneFailure(2)}

InsiderStatsRequests ==
    {[tool |-> "get_insider_stats", ticker |-> t, insider_name |-> n,
      days |-> d, fault |-> f] :
        t \in {None, Empty, tsla, aapl}, n \in {None, Empty, S(<<"b", "o">>)},
        d \in Windows, f \in Faults}

CallsByBatchRequests ==
    {[tool |-> "get_calls_by_batch", batch_id |-> id, fault |-> f] :
        id \in {Empty, S(b1), S(b2), Bogus}, f \in Faults}

LatestContextRequests ==
    {[tool |-> "get_latest_market_context", fault |-> f] : f \in Faults}

ContextSummaryRequests ==
    {[tool |-> "get_market_context_summary", days |-> d, fault |-> f] :
        d \in Windows, f \in Faults}

TickerAnalysisRequests ==
    {[tool |-> "get_ticker_analysis", ticker |-> t, days |-> d, faults |-> f] :
        t \in {Empty, tsla, aapl, AAPL, Bogus}, d \in Windows,
        f \in OneFailure(4)}

GetInsiderStats ==
    /\ pc = "ready"
    /\ \E req \in InsiderStatsRequests :
          ToolCallEnds(req, get_insider_stats(connection_pool, store, req))

GetCallsByBatch ==
    /\ pc = "ready"
    /\ \E req \in CallsByBatchRequests :
          ToolCallEnds(req, get_calls_by_batch(connection_pool, store, req))

GetLatestMarketContext ==
    /\ pc = "ready"
    /\ \E req \in LatestContextRequests :
          ToolCallEnds(req, get_latest_market_context(connection_pool, store,
                                                      req))

GetMarketContextSummary ==
    /\ pc = "ready"
    /\ \E req \in ContextSummaryRequests :
          ToolCallEnds(req, get_market_context_summary(connection_pool, store,
                                                       req))

GetTickerAnalysis ==
    /\ pc = "ready"
    /\ \E req \in TickerAnalysisRequests :
          ToolCallEnds(req, get_ticker_analysis(connection_pool, store, req))

InitSurface == InitTools(SurfaceStores)

NextSurface ==
    \/ HealthCheck
    \/ GetInsiderTransactions(SurfaceTxRequests)
    \/ GetTransactionById
    \/ GetRecentSignals
    \/ GetUnprocessedTransactions
    \/ GetInsiderStats
    \/ GetLlmCalls(SurfaceCallsRequests)
    \/ GetCallById
    \/ GetOpenCalls
    \/ GetCallPerformance
    \/ GetCallsByBatch
    \/ GetMarketContext
    \/ GetLatestMarketContext
    \/ GetMarketContextById
    \/ GetMarketContextSummary
    \/ GetPortfolioSummary
    \/ GetTickerAnalysis
    \/ GetSignalStatistics
    \/ GetTopPerformers
    \/ Return

SpecSurface == InitSurface /\ [][NextSurface]_vars

----------------------------------------------------------------------------
(* The response envelope *)

Envelope == response.envelope

\* The field that holds each tool's payload
SurfaceKey ==
    CASE request.tool \in {"get_insider_transactions",
                           "get_unprocessed_transactions"} -> "transactions"
      [] request.tool = "get_transaction_by_id" -> "transaction"
      [] request.tool = "get_recent_signals" -> "signals"
      [] request.tool \in {"get_insider_stats", "get_signal_statistics"} ->
            "statistics"
      [] request.tool \in {"get_llm_calls", "get_open_calls",
                           "get_calls_by_batch"} -> "calls"
      [] request.tool = "get_call_by_id" -> "call"
      [] request.tool = "get_call_performance" -> "performance"
      [] request.tool = "get_market_context" -> "market_contexts"
      [] request.tool \in {"get_latest_market_context",
                           "get_market_context_by_id"} -> "market_context"
      [] request.tool = "get_market_context_summary" -> "summary"
      [] request.tool = "get_portfolio_summary" -> "portfolio_summary"
      [] request.tool = "get_ticker_analysis" -> "analysis"
      [] request.tool = "get_top_performers" -> "top_performers"
      [] request.tool = "health_check" -> "database"

\* The parameters the tool was called with
ParamsOf(req) == DOMAIN req \ {"tool", "fault", "faults"}

IntParams == {"limit", "offset", "days", "call_id", "context_id"}

\* A parameter as it was supplied
Supplied(p) == IF p \in IntParams THEN PyInt(request[p]) ELSE request[p]

\* The envelope carries the parameter as supplied, at the top or under
\* "filters"
Echoes(p) ==
    \/ /\ p \in DOMAIN Envelope
       /\ Envelope[p] = Supplied(p)
    \/ /\ "filters" \in DOMAIN Envelope
       /\ p \in DOMAIN Envelope.filters
       /\ Envelope.filters[p] = Supplied(p)

\* C14: every tool call that returns normally returns an envelope with the
\* payload, each request parameter as it was supplied, a timestamp, and
\* status "success".
EnvelopeEchoesRequest ==
    (pc = "done" /\ response.status = "success") =>
        /\ SurfaceKey \in DOMAIN Envelope
        /\ "timestamp" \in DOMAIN Envelope
        /\ Envelope.status = "success"
        /\ \A p \in ParamsOf(request) : Echoes(p)

----------------------------------------------------------------------------
(* All or nothing *)

\* The description each tool puts in front of the message of a failure
Description ==
    CASE request.tool = "get_insider_transactions" ->
            "Failed to retrieve insider transactions: "
      [] request.tool = "get_transaction_by_id" ->
            "Failed to retrieve transaction: "
      [] request.tool = "get_recent_signals" ->
            "Failed to retrieve recent signals: "
      [] request.tool = "get_unprocessed_transactions" ->
            "Failed to retrieve unprocessed transactions: "
      [] request.tool = "get_insider_stats" ->
            "Failed to retrieve insider statistics: "
      [] request.tool = "get_llm_calls" -> "Failed to retrieve LLM calls: "
      [] request.tool = "get_call_by_id" -> "Failed to retrieve call: "
      [] request.tool = "get_open_calls" -> "Failed to retrieve open calls: "
      [] request.tool = "get_call_performance" ->
            "Failed to retrieve call performance: "
      [] request.tool = "get_calls_by_batch" ->
            "Failed to retrieve calls by batch: "
      [] request.tool \in {"get_market_context", "get_market_context_by_id"} ->
            "Failed to retrieve market context: "
      [] request.tool = "get_latest_market_context" ->
            "Failed to retrieve latest market context: "
      [] request.tool = "get_market_context_summary" ->
            "Failed to retrieve market context summary: "
      [] request.tool = "get_portfolio_summary" ->
            "Failed to retrieve portfolio summary: "
      [] request.tool = "get_ticker_analysis" ->
            "Failed to retrieve ticker analysis: "
      [] request.tool = "get_signal_statistics" ->
            "Failed to retrieve signal statistics: "
      [] request.tool = "get_top_performers" ->
            "Failed to retrieve top performers: "

\* A call of a tool other than health_check has ended
QueryToolDone ==
    pc = "done" /\ request.tool \notin {"health_check", "close_db_pool"}

\* What the environment does to each statement of the call
FaultsOf(req) == IF "faults" \in DOMAIN req THEN req.faults ELSE <<req.fault>>

\* The tools that run every one of their statements
RunAll ==
    {"get_insider_transactions", "get_llm_calls", "get_portfolio_summary",
     "get_ticker_analysis"}

\* A statement failed in the executor: the call rolled back
ExecutorFailed == Count(conn_ops, "rollback") > 0

\* The first statement failed in the pool: the call got no connection
PoolFailed ==
    /\ conn_ops = <<>>
    /\ FaultsOf(request)[1].at \in {"init", "getconn"}

\* C15: a call of a tool other than health_check either returns an envelope
\* after every statement succeeded, or raises one error, the tool's
\* description followed by the underlying message, and returns no envelope;
\* it raises whenever a statement fails in the pool or the executor, also
\* when earlier statements of the call succeeded.
AllOrNothing ==
    QueryToolDone =>
        /\ IF response.status = "error"
           THEN /\ DOMAIN response = {"status", "message"}
                /\ response.message[1] = Description
           ELSE /\ response.status = "success"
                /\ DOMAIN response = {"status", "envelope"}
                /\ ~ExecutorFailed
                /\ Count(conn_ops, "getconn") = Len(statements)
                /\ Count(conn_ops, "putconn") = Len(statements)
        /\ ExecutorFailed =>
              \E m \in {ConnectionLost, "connection already closed"} :
                  response = [status |-> "error", message |-> <<Description, m>>]
        /\ PoolFailed =>
              response = [status |-> "error",
                          message |-> <<Description, "could not connect to server">>]
        /\ \A k \in 1..Len(FaultsOf(request)) :
              (/\ FaultsOf(request)[k].at \in {"execute", "fetch"}
               /\ request.tool \in RunAll \/ Len(FaultsOf(request)) = 1)
                 => /\ response.status = "error"
                    /\ Len(statements) = k

\* get_ticker_analysis whose third statement failed after two succeeded
AllOrNothingWitness ==
    /\ pc = "done"
    /\ request.tool = "get_ticker_analysis"
    /\ request.faults[3] = [at |-> "fetch", broken |-> FALSE]
    /\ Len(statements) = 3
    /\ Count(conn_ops, "putconn") = 3
    /\ response = [status |-> "error",
                   message |-> <<"Failed to retrieve ticker analysis: ",
                                 ConnectionLost>>]

----------------------------------------------------------------------------
(* The batch filter of get_market_context *)

\* A call of get_market_context with a batch_id returned
BatchAsked ==
    /\ pc = "done"
    /\ request.tool = "get_market_context"
    /\ request.batch_id \notin {None, Empty}
    /\ response.status = "success"

\* The batch_id is a substring of the serialized form of one of the four
\* fields of the record
MentionsBatch(r) ==
    \E f \in {"sector_activity", "ceo_cfo_buys", "large_transactions",
              "notable_patterns"} :
        /\ r[f] # None
        /\ Contains(JsonDumps(r[f]), request.batch_id.v)

\* The record is within the timestamps asked for
InTimestamps(r) ==
    /\ Absent(request.start_timestamp)
          \/ r.timestamp.v >= IntOfStr(request.start_timestamp.v)
    /\ Absent(request.end_timestamp)
          \/ r.timestamp.v <= IntOfStr(request.end_timestamp.v)

\* The records of the store within the timestamps, and those of them that
\* mention the batch
TimestampFiltered ==
    {i \in 1..Len(store.market_context) : InTimestamps(store.market_context[i])}

BatchRecords ==
    {i \in TimestampFiltered : MentionsBatch(store.market_context[i])}

\* C16: with a non-empty batch_id, every record get_market_context returns
\* mentions the batch_id in the serialized form of one of its four fields and
\* is a record of the timestamp-filtered result; the records of that result
\* that do not mention it, those with four null or empty fields included, are
\* removed; and count is the number of records kept. When the limit does not
\* cut the timestamp-filtered result, the records kept are all those that
\* mention the batch_id.
BatchFilterKeepsMentions ==
    BatchAsked =>
        LET kept == Envelope.market_contexts IN
        /\ \A k \in 1..Len(kept) :
              /\ MentionsBatch(kept[k])
              /\ \E i \in BatchRecords : store.market_context[i] = kept[k]
        /\ \A i \in TimestampFiltered \ BatchRecords :
              \A k \in 1..Len(kept) : kept[k] # store.market_context[i]
        /\ Envelope.count = PyInt(Len(kept))
        /\ Len(kept) <= Cardinality(BatchRecords)
        /\ Cardinality(TimestampFiltered) <= ExpectedLimit
              => Len(kept) = Cardinality(BatchRecords)

\* Three records within the timestamps, of which one mentions the batch, one
\* mentions another batch and one has no field to search: one is kept
BatchFilterKeepsMentionsWitness ==
    /\ BatchAsked
    /\ request.batch_id = S(b2)
    /\ store.market_context = FixedCtxTable
    /\ Cardinality(TimestampFiltered) = 3
    /\ Envelope.count = PyInt(1)
    /\ Envelope.market_contexts = <<CtxOfKind(3, 3)>>

----------------------------------------------------------------------------
(* Access to the tools: main.py defines validate_api_key and registers the *)
(* tools of the four modules with the server as they are                   *)

\* os.getenv("API_KEY"): unset, set to the empty string, or set to a secret
key1 == S(<<"k", "1">>)
key2 == S(<<"k", "2">>)

Environments == {[API_KEY |-> k] : k \in {None, Empty, key1}}

\* The key a client sends with its request, or none
Keys == {None, Empty, key1, key2}

\* validate_api_key: True when no API_KEY is set, else whether api_key is it
validate_api_key(environ, api_key) ==
    IF ~Truthy(environ.API_KEY) THEN TRUE ELSE api_key = environ.API_KEY

\* A request of a client: the arguments of the tool, and beside them the key
\* the client sent and the environment of the process that serves it
Keyed(req, environ, api_key) ==
    [args |-> req, tool |-> req.tool, environ |-> environ, api_key |-> api_key]

\* The server calls the registered tool with the arguments of the request
ServeHealthCheck ==
    /\ pc = "ready"
    /\ \E fault \in Faults, environ \in Environments, api_key \in Keys :
          ToolCallEnds(Keyed([tool |-> "health_check", fault |-> fault],
                             environ, api_key),
                       health_check(connection_pool, store, fault))

ServeInsiderStats ==
    /\ pc = "ready"
    /\ \E req \in InsiderStatsRequests, environ \in Environments,
          api_key \in Keys :
          ToolCallEnds(Keyed(req, environ, api_key),
                       get_insider_stats(connection_pool, store, req))

ServeCallsByBatch ==
    /\ pc = "ready"
    /\ \E req \in CallsByBatchRequests, environ \in Environments,
          api_key \in Keys :
          ToolCallEnds(Keyed(req, environ, api_key),
                       get_calls_by_batch(connection_pool, store, req))

InitAccess == InitTools(SurfaceStores)

NextAccess ==
    \/ ServeHealthCheck
    \/ ServeInsiderStats
    \/ ServeCallsByBatch
    \/ Return

SpecAccess == InitAccess /\ [][NextAccess]_vars

\* The key of the request served does not pass validate_api_key: a secret is
\* configured and the key is missing or different
KeyRefused ==
    /\ pc = "done"
    /\ ~validate_api_key(request.environ, request.api_key)

\* C17: when a secret is configured, a request whose key is missing or
\* different is not accepted: no statement is executed for it, no connection
\* is taken, and it gets no result
AccessNeedsKey ==
    KeyRefused =>
        /\ statements = <<>>
        /\ conn_ops = <<>>
        /\ response.status # "success"

----------------------------------------------------------------------------
(* Which filters are supplied *)

\* The filters of the two tools: the argument, the predicate it contributes,
\* and whether it is a boolean
FilterField(field, col, op, boolean) ==
    [field |-> field, col |-> col, op |-> op, boolean |-> boolean]

FilterFields ==
    IF request.tool = "get_insider_transactions"
    THEN {FilterField("ticker", "ticker", "=", FALSE),
          FilterField("insider_name", "insider_name", "ILIKE", FALSE),
          FilterField("start_date", "transaction_date", ">=", FALSE),
          FilterField("end_date", "transaction_date", "<=", FALSE),
          FilterField("signal_generated", "signal_generated", "=", TRUE),
          FilterField("signal_quality", "signal_quality", "=", FALSE),
          FilterField("alert_sent", "alert_sent", "=", TRUE)}
    ELSE {FilterField("ticker", "ticker", "=", FALSE),
          FilterField("status", "status", "=", FALSE),
          FilterField("recommendation", "recommendation", "=", FALSE),
          FilterField("is_closed", "is_closed", "=", TRUE),
          FilterField("start_date", "entry_date", ">=", FALSE),
          FilterField("end_date", "entry_date", "<=", FALSE)}

\* None is never supplied; the empty string is not supplied either
FilterSupplied(f) ==
    IF f.boolean
    THEN request[f.field] # None
    ELSE request[f.field] # None /\ request[f.field] # Empty

\* The places of the WHERE clause that hold the predicate of the filter
PredicatesOf(where, f) ==
    {k \in 1..Len(where) :
        where[k].col = f.col /\ where[k].op = f.op /\ where[k].rhs = "%s"}

FilteredCall == pc = "done" /\ request.tool \in Paged /\ statements # <<>>

\* C18: a filter of get_insider_transactions or get_llm_calls contributes
\* its predicate, once, and a parameter exactly when it is supplied; a string
\* filter is supplied unless it is None or empty, a boolean filter unless it
\* is None, and a boolean filter given as False is bound as False.
OnlySuppliedFiltersContribute ==
    FilteredCall =>
        \A s \in 1..Len(statements) :
            LET where == statements[s].query.where IN
            /\ \A f \in FilterFields :
                  /\ Cardinality(PredicatesOf(where, f)) =
                         IF FilterSupplied(f) THEN 1 ELSE 0
                  /\ f.boolean /\ request[f.field] = PyBool(FALSE) =>
                        \A k \in PredicatesOf(where, f) :
                            statements[s].params[k] = PyBool(FALSE)
            /\ Placeholders(where) =
                   Cardinality({f \in FilterFields : FilterSupplied(f)})

\* get_llm_calls with is_closed False, an empty status and no other filter:
\* the one predicate is is_closed = %s, bound to False
OnlySuppliedFiltersContributeWitness ==
    /\ FilteredCall
    /\ request.tool = "get_llm_calls"
    /\ request.is_closed = PyBool(FALSE)
    /\ request.status = Empty
    /\ request.ticker = None
    /\ statements[1].query.where = <<Cond("is_closed", "=", "%s")>>
    /\ statements[1].params[1] = PyBool(FALSE)

----------------------------------------------------------------------------
(* The form in which string arguments are bound *)

TickerTools ==
    {"get_insider_transactions", "get_insider_stats", "get_llm_calls",
     "get_call_performance", "get_ticker_analysis"}

\* The form the argument behind a predicate is to be bound in
BoundForm(c) ==
    IF c.col = "insider_name"
    THEN PyStr(<<"%">> \o request.insider_name.v \o <<"%">>)
    ELSE PyStr(Upper(request[c.col].v))

\* The columns of the predicates of a statement that hold a placeholder
ColumnsBound(where) ==
    {NthPlaceholder(where, k).col : k \in 1..Placeholders(where)}

\* The tool binds a ticker: get_ticker_analysis always, the others when the
\* ticker is given and not empty
TickerGiven ==
    /\ request.tool \in TickerTools
    /\ request.tool = "get_ticker_analysis" \/ ~Absent(request.ticker)

\* An unrecognised status or recommendation was given to get_llm_calls and
\* no statement failed
UnrecognisedGiven ==
    /\ pc = "done"
    /\ request.tool = "get_llm_calls"
    /\ request.status = Bogus \/ request.recommendation = Bogus
    /\ \A i \in 1..Len(request.faults) : request.faults[i] = NoFault

\* C19: in every statement a tool sends, a ticker, status or recommendation
\* is bound upper-cased to an equality predicate and an insider_name is
\* bound between two % to an ILIKE predicate; each of the five tools that
\* take a ticker does bind it in every statement; and an unrecognised status
\* or recommendation is not rejected: the call succeeds with zero rows.
BoundInCanonicalForm ==
    /\ pc = "done" =>
          \A s \in 1..Len(statements) :
              LET where == statements[s].query.where IN
              /\ \A k \in 1..Placeholders(where) :
                    LET c == NthPlaceholder(where, k) IN
                    /\ c.col \in {"ticker", "status", "recommendation"} =>
                          /\ c.op = "="
                          /\ statements[s].params[k] = BoundForm(c)
                    /\ c.col = "insider_name" =>
                          /\ c.op = "ILIKE"
                          /\ statements[s].params[k] = BoundForm(c)
              /\ TickerGiven => "ticker" \in ColumnsBound(where)
    /\ UnrecognisedGiven =>
          /\ response.status = "success"
          /\ Envelope.calls = <<>>
          /\ Envelope.total = PyInt(0)
          /\ \A s \in 1..Len(statements) :
                ColumnsBound(statements[s].query.where) \cap
                    {"status", "recommendation"} # {}

\* get_insider_transactions(ticker="tsla", insider_name="bo") binds TSLA and
\* %bo% and finds the transactions of TSLA by Al Bo
BoundInCanonicalFormWitness ==
    /\ pc = "done"
    /\ request.tool = "get_insider_transactions"
    /\ request.ticker = tsla
    /\ request.insider_name = S(<<"b", "o">>)
    /\ response.status = "success"
    /\ statements[1].params[1] = S(<<"T", "S", "L", "A">>)
    /\ statements[1].params[2] = S(<<"%", "b", "o", "%">>)
    /\ Envelope.transactions # <<>>

\* get_llm_calls(status="bogus") binds BOGUS and returns no call
UnrecognisedStatusWitness ==
    /\ UnrecognisedGiven
    /\ request.status = Bogus
    /\ statements[1].params[Len(statements[1].query.where)] = PyStr(Upper(Bogus.v))

----------------------------------------------------------------------------
(* Unrecognised arguments: metric and signal_quality *)

\* get_top_performers was called with a metric other than pnl, price_change
OtherMetric ==
    /\ pc = "done"
    /\ request.tool = "get_top_performers"
    /\ request.metric \notin {"pnl", "price_change"}

\* get_insider_transactions or get_recent_signals was called with a
\* signal_quality that no row holds
UnrecognisedQuality ==
    /\ pc = "done"
    /\ request.tool \in {"get_insider_transactions", "get_recent_signals"}
    /\ request.signal_quality = Bogus

NoFailure == \A i \in 1..Len(FaultsOf(request)) : FaultsOf(request)[i] = NoFault

\* C20: get_top_performers with a metric other than pnl and price_change
\* sends the statement that groups insider_transactions and orders by
\* total_transaction_value, succeeds when the statement does, and returns
\* the metric as it was given; get_insider_transactions and
\* get_recent_signals with an unrecognised signal_quality bind it unchanged
\* to signal_quality = %s in every statement and succeed with zero rows.
UnrecognisedFallbacks ==
    /\ OtherMetric =>
          /\ \A s \in 1..Len(statements) :
                /\ statements[s].query.table = "insider_transactions"
                /\ statements[s].query.order[1].col = "total_transaction_value"
          /\ NoFailure =>
                /\ response.status = "success"
                /\ Len(statements) = 1
                /\ Envelope.metric = request.metric
                /\ \A i \in 1..Len(Envelope.top_performers) :
                      "total_transaction_value" \in
                          DOMAIN Envelope.top_performers[i]
    /\ UnrecognisedQuality =>
          /\ \A s \in 1..Len(statements) :
                LET where == statements[s].query.where IN
                \E k \in 1..Placeholders(where) :
                    /\ NthPlaceholder(where, k) = Cond("signal_quality", "=", "%s")
                    /\ statements[s].params[k] = Bogus
          /\ NoFailure =>
                /\ response.status = "success"
                /\ statements # <<>>
                /\ Envelope[SurfaceKey] = <<>>
                /\ Envelope.count = PyInt(0)

\* get_top_performers(metric="volume") returns the tickers by transaction
\* value and says metric volume
UnrecognisedFallbacksWitness ==
    /\ OtherMetric
    /\ request.metric = "volume"
    /\ response.status = "success"
    /\ Envelope.metric = "volume"
    /\ Envelope.top_performers # <<>>

\* get_recent_signals(signal_quality="bogus") on a store with signals
UnrecognisedQualityWitness ==
    /\ UnrecognisedQuality
    /\ request.tool = "get_recent_signals"
    /\ NoFailure
    /\ Envelope.signals = <<>>
    /\ \E i \in 1..Len(store.insider_transactions) :
          store.insider_transactions[i].signal_generated = PyBool(TRUE)

----------------------------------------------------------------------------
(* No retries *)

\* The call ended with a failure of the pool or of a statement, not with a
\* verdict of the tool itself (not found, invalid identifier)
UnderlyingFailure ==
    /\ response.status = "error"
    /\ ~NotFoundRaised
    /\ response.message[Len(response.message)] # InvalidLiteral

\* C21: within one tool call each statement is sent at most once and executed
\* once, never more statements than the body has; a rollback is the last
\* thing the call does on a connection but for handing it back; and when a
\* statement or the pool failed, no statement after the failing one was sent
\* and the tool reported the failure (health_check reports it as degraded).
NoRetries ==
    pc = "done" =>
        /\ \A i, j \in 1..Len(statements) :
              i # j => statements[i] # statements[j]
        /\ Count(conn_ops, "execute") = Len(statements)
        /\ Count(conn_ops, "getconn") = Len(statements)
        /\ Len(statements) <= Len(FaultsOf(request))
        /\ \A i \in 1..Len(conn_ops) :
              conn_ops[i] = "rollback" =>
                  /\ i = Len(conn_ops) - 1
                  /\ conn_ops[Len(conn_ops)] = "putconn"
                  /\ IF request.tool = "health_check"
                     THEN Envelope.status = "degraded"
                     ELSE UnderlyingFailure
        /\ UnderlyingFailure =>
              \A k \in 1..Len(FaultsOf(request)) :
                  FaultsOf(request)[k] # NoFault =>
                      Len(statements) <=
                          IF ExecutorFailed THEN k ELSE k - 1

\* get_ticker_analysis whose second statement of four fails: two statements
\* were sent and the failure is reported
NoRetriesWitness ==
    /\ pc = "done"
    /\ request.tool = "get_ticker_analysis"
    /\ request.faults[2].at = "execute"
    /\ Len(statements) = 2
    /\ UnderlyingFailure
    /\ Count(conn_ops, "rollback") = 1

----------------------------------------------------------------------------
(* Absence at the executor, and in get_latest_market_context *)

InitAbsence ==
    InitTools({PoolStore, Tables(FixedTxTable, FixedCallTable, FixedCtxTable)})

NextAbsence ==
    \/ DbExecuteQuery
    \/ DbExecuteWrite
    \/ GetLatestMarketContext
    \/ Return

SpecAbsence == InitAbsence /\ [][NextAbsence]_vars

\* execute_query ran a statement with the one parameter it takes
QueryAsked ==
    /\ pc = "done"
    /\ request.tool = "execute_query"
    /\ statements # <<>>
    /\ Len(statements[1].params) = 1

\* The transactions the statement asks for: those of the ticker
RowsAsked ==
    {i \in 1..Len(store.insider_transactions) :
        store.insider_transactions[i].ticker = statements[1].params[1]}

LatestAsked ==
    /\ pc = "done"
    /\ request.tool = "get_latest_market_context"
    /\ request.fault = NoFault

\* C22: execute_query does not raise for want of rows. With fetch_one it
\* returns None when no row matches and a matching row otherwise; without,
\* it returns the matching rows, the empty list when there are none.
\* get_latest_market_context on a store without market context succeeds
\* with market_context null, and with a most recent record otherwise.
AbsenceIsData ==
    /\ QueryAsked /\ request.fault = NoFault => response.status = "returned"
    /\ QueryAsked /\ response.status = "returned" =>
          IF Count(conn_ops, "fetchone") > 0
          THEN IF RowsAsked = {}
               THEN response.value = None
               ELSE \E i \in RowsAsked :
                       response.value = store.insider_transactions[i]
          ELSE /\ Len(response.value) = Cardinality(RowsAsked)
               /\ \A k \in 1..Len(response.value) :
                     \E i \in RowsAsked :
                         response.value[k] = store.insider_transactions[i]
               /\ RowsAsked = {} => response.value = <<>>
    /\ LatestAsked =>
          /\ response.status = "success"
          /\ IF store.market_context = <<>>
             THEN Envelope.market_context = None
             ELSE \E i \in 1..Len(store.market_context) :
                     /\ Envelope.market_context = store.market_context[i]
                     /\ \A j \in 1..Len(store.market_context) :
                           store.market_context[j].timestamp.v <=
                               store.market_context[i].timestamp.v

\* execute_query with fetch_one for a ticker no transaction has: None
AbsenceIsDataWitness ==
    /\ QueryAsked
    /\ Count(conn_ops, "fetchone") > 0
    /\ RowsAsked = {}
    /\ response.status = "returned"
    /\ response.value = None

\* get_latest_market_context on a store without market context
LatestOfNoneWitness ==
    /\ LatestAsked
    /\ store.market_context = <<>>
    /\ response.status = "success"
    /\ Envelope.market_context = None

\* execute_query without fetch_one for a ticker no transaction has
NoRowsWitness ==
    /\ QueryAsked
    /\ Count(conn_ops, "fetchall") > 0
    /\ RowsAsked = {}
    /\ response.status = "returned"
    /\ response.value = <<>>

----------------------------------------------------------------------------
(* Lazy initialisation under concurrency: several threads enter            *)
(* get_db_connection while the global connection_pool is unset. The code   *)
(* takes no lock, so every read and write of the global is a step of its   *)
(* own. Here pc, request and response hold one entry per thread, and        *)
(* conn_ops is the trace of the pools constructed.                         *)

NumThreads == 3
Threads == 1..NumThreads

NoConn == [pool |-> 0, c |-> 0]

\* ThreadedConnectionPool(min_conn, max_conn, ...), constructed by thread t
ThreadedConnectionPool(t) ==
    [state |-> "open", idle |-> init_db_pool(NoPool, NoFault).cp.idle,
     used |-> {}, id |-> t]

Constructed(t) == [op |-> "ThreadedConnectionPool", thread |-> t]

\* Thread t moves from one place of get_db_connection to the next
Goes(t, to) == pc' = [pc EXCEPT ![t] = to]

\* get_db_connection: if not connection_pool: init_db_pool()
LazyCheck(t) ==
    /\ pc[t] = "get_db_connection"
    /\ Goes(t, IF ~(connection_pool # NoPool) THEN "init_db_pool" ELSE "getconn")
    /\ UNCHANGED <<connection_pool, store, request, response, statements,
                   conn_ops>>

\* init_db_pool: if connection_pool: return
InitCheck(t) ==
    /\ pc[t] = "init_db_pool"
    /\ Goes(t, IF connection_pool # NoPool THEN "getconn" ELSE "construct")
    /\ UNCHANGED <<connection_pool, store, request, response, statements,
                   conn_ops>>

\* init_db_pool: connection_pool = ThreadedConnectionPool(...)
Construct(t) ==
    /\ pc[t] = "construct"
    /\ connection_pool' = ThreadedConnectionPool(t)
    /\ conn_ops' = Append(conn_ops, Constructed(t))
    /\ Goes(t, "getconn")
    /\ UNCHANGED <<store, request, response, statements>>

\* conn = connection_pool.getconn(), on the pool the global names now
GetConn(t) ==
    /\ pc[t] = "getconn"
    /\ connection_pool' = getconn(connection_pool, NoFault).cp
    /\ request' = [request EXCEPT ![t] =
                      [pool |-> connection_pool.id,
                       c |-> getconn(connection_pool, NoFault).conn]]
    /\ Goes(t, "yield")
    /\ UNCHANGED <<store, response, statements, conn_ops>>

\* yield conn: the body of the with block runs
YieldConn(t) ==
    /\ pc[t] = "yield"
    /\ Goes(t, "finally")
    /\ UNCHANGED <<connection_pool, store, request, response, statements,
                   conn_ops>>

\* finally: connection_pool.putconn(conn), on the pool the global names now;
\* a pool raises for a connection it did not hand out
PutConn(t) ==
    /\ pc[t] = "finally"
    /\ IF request[t].pool = connection_pool.id
       THEN /\ connection_pool' =
                   putconn(connection_pool, request[t].c, FALSE).cp
            /\ response' = [response EXCEPT ![t] = "returned"]
       ELSE /\ connection_pool' = connection_pool
            /\ response' = [response EXCEPT ![t] = "raised"]
    /\ request' = [request EXCEPT ![t] = NoConn]
    /\ Goes(t, "done")
    /\ UNCHANGED <<store, statements, conn_ops>>

InitLazy ==
    /\ connection_pool = NoPool
    /\ store = PoolStore
    /\ pc = [t \in Threads |-> "get_db_connection"]
    /\ request = [t \in Threads |-> NoConn]
    /\ response = [t \in Threads |-> "none"]
    /\ statements = <<>>
    /\ conn_ops = <<>>

NextLazy ==
    \E t \in Threads :
        \/ LazyCheck(t)
        \/ InitCheck(t)
        \/ Construct(t)
        \/ GetConn(t)
        \/ YieldConn(t)
        \/ PutConn(t)

SpecLazy == InitLazy /\ [][NextLazy]_vars

\* C23: when several threads make the first use of the pool concurrently,
\* one pool is constructed, the connection of every thread is one of the
\* pool the global names, and no thread fails to hand its connection back.
OnePoolPerRun ==
    /\ Len(conn_ops) <= 1
    /\ \A t \in Threads :
          /\ request[t] # NoConn => request[t].pool = connection_pool.id
          /\ response[t] # "raised"

----------------------------------------------------------------------------
(* The batch filter and the limit *)

\* C24: with a batch_id, get_market_context returns min(k, limit) records,
\* where k is the number of records within the timestamps that mention the
\* batch_id, and they are the most recent of those, however many records
\* that do not mention it are more recent.
BatchCompleteUpToLimit ==
    BatchAsked =>
        LET kept == Envelope.market_contexts IN
        /\ Len(kept) =
               IF Cardinality(BatchRecords) <= ExpectedLimit
               THEN Cardinality(BatchRecords)
               ELSE ExpectedLimit
        /\ \A i \in BatchRecords :
              (\A k \in 1..Len(kept) : kept[k] # store.market_context[i]) =>
                  \A k \in 1..Len(kept) :
                      store.market_context[i].timestamp.v <= kept[k].timestamp.v

----------------------------------------------------------------------------
(* The order in which get_transaction_by_id resolves an identifier *)

TxLookupDone ==
    /\ pc = "done"
    /\ request.tool = "get_transaction_by_id"
    /\ request.faults = NoFaults

\* The transactions whose primary key the identifier names, and those whose
\* transaction_id it is
PkMatches ==
    {i \in 1..Len(store.insider_transactions) :
        /\ IsDecimalStr(request.transaction_id.v)
        /\ store.insider_transactions[i].id =
               PyInt(IntOfStr(request.transaction_id.v))}

XidMatches ==
    {i \in 1..Len(store.insider_transactions) :
        store.insider_transactions[i].transaction_id = request.transaction_id}

Returns(matches) ==
    /\ response.status = "success"
    /\ \E i \in matches : Envelope.transaction = store.insider_transactions[i]

\* The primary key first for an identifier of digits, then the
\* transaction_id, then not found
ResolvedInOrder ==
    IF IsDigitStr(request.transaction_id.v) /\ PkMatches # {}
    THEN Returns(PkMatches) /\ Len(statements) = 1
    ELSE /\ statements # <<>>
         /\ statements[Len(statements)].query = ByTransactionId
         /\ IF XidMatches # {} THEN Returns(XidMatches) ELSE NotFoundRaised

\* C25: get_transaction_by_id returns the record whose primary key an
\* all-digit identifier names, even when another record has the identifier
\* as its transaction_id; when there is none, or the identifier is not all
\* digits, it looks the transaction_id up, and raises not found only when
\* that finds nothing either.
ResolutionOrder == TxLookupDone => ResolvedInOrder

\* The same for the identifiers whose digits are all decimal digits, or
\* which are not all digits
ResolutionOrderOfDecimals ==
    (TxLookupDone /\ (IsDigitStr(request.transaction_id.v)
                         => IsDecimalStr(request.transaction_id.v)))
        => ResolvedInOrder

\* "2" is the primary key of one record and the transaction_id of another:
\* the record of primary key 2 is returned
PrimaryKeyFirstWitness ==
    /\ TxLookupDone
    /\ PkMatches # {}
    /\ XidMatches # {}
    /\ PkMatches \cap XidMatches = {}
    /\ Returns(PkMatches)

----------------------------------------------------------------------------
(* The paginated tools beside an external writer. The row query and the    *)
(* count query are two calls of execute_query, each on a connection of its *)
(* own: another client of the store can commit between them.               *)

WriterRows == 2

\* What a paginated call works with: its table, order, filters and limit
PageOf(req) ==
    IF req.tool = "get_insider_transactions"
    THEN [table |-> "insider_transactions", order |-> TxOrder,
          f |-> ApplyFilters(TxFilters(req), <<>>, <<>>),
          limit |-> Clamp(req.limit, InsiderLimitMax, InsiderLimitDefault),
          key |-> "transactions",
          description |-> "Failed to retrieve insider transactions: "]
    ELSE [table |-> "llm_calls", order |-> CallOrder,
          f |-> ApplyFilters(CallFilters(req), <<>>, <<>>),
          limit |-> Clamp(req.limit, LlmCallsLimitMax, LlmCallsLimitDefault),
          key |-> "calls", description |-> "Failed to retrieve LLM calls: "]

PageParams(req, p) == p.f.params \o <<PyInt(p.limit), PyInt(req.offset)>>

\* results = execute_query(query, tuple(params))
RowsOf(cp, st, req, p) ==
    RowQuery(Start(cp, st), p.table, p.order, WhereClause(p.f.conditions),
             PageParams(req, p), req.faults[1])

\* count_result = execute_query(count_query, ...), on the store as it is
\* now, and the return
CountOfRows(run, req, p) ==
    PageResult(CountQuery(run, p.table, WhereClause(p.f.conditions),
                          PageParams(req, p), req.faults[2]),
               p.key, p.description, p.limit, req.offset)

\* The call has run its row query and goes on as run
RowsFetched(req, run) ==
    /\ connection_pool' = run.cp
    /\ request' = req
    /\ response' = [status |-> "running", run |-> run]
    /\ statements' = run.stmts
    /\ conn_ops' = run.ops
    /\ pc' = "rows"
    /\ UNCHANGED store

WriterRequests ==
    {TxRequest(t, None, None, None, None, None, None, l, o, f) :
        t \in {None, tsla}, l \in {2, 100}, o \in {0, 1}, f \in PageFaults}
    \cup {CallsRequest(t, None, None, None, None, None, l, o, f) :
             t \in {None, tsla}, l \in {2, 100}, o \in {0, 1}, f \in PageFaults}

FetchRows ==
    /\ pc = "ready"
    /\ \E req \in WriterRequests :
          RowsFetched(req, RowsOf(connection_pool, store, req, PageOf(req)))

FetchCount ==
    /\ pc \in {"rows", "written"}
    /\ ToolCallEnds(request,
                    CountOfRows([response.run EXCEPT !.store = store],
                                request, PageOf(request)))

\* An id no row of the table has
NewId(rows) ==
    CHOOSE n \in 1..(WriterRows + 1) : \A i \in 1..Len(rows) : rows[i].id.v # n

NewRow(table, rows) ==
    IF table = "insider_transactions"
    THEN TxOfKind(1, NewId(rows))
    ELSE CallOfKind(1, NewId(rows))

\* The table after another client deleted a row of it or inserted one
Written(table, rows) ==
    {SubSeq(rows, 1, i - 1) \o SubSeq(rows, i + 1, Len(rows)) :
        i \in 1..Len(rows)}
    \cup {Append(rows, NewRow(table, rows)) : n \in {1} \cap 1..(WriterRows - Len(rows))}

\* Another client commits a write to the table the call reads
ExternalWriter ==
    /\ pc = "rows"
    /\ \E rows \in Written(PageOf(request).table,
                           store[PageOf(request).table]) :
          store' = [store EXCEPT ![PageOf(request).table] = rows]
    /\ pc' = "written"
    /\ UNCHANGED <<connection_pool, request, response, statements, conn_ops>>

\* Tables of WriterRows rows, of kinds 1, 2, ... in turn
WriterStore ==
    Tables([i \in 1..WriterRows |-> TxOfKind(((i - 1) % NumKinds) + 1, i)],
           [i \in 1..WriterRows |-> CallOfKind(((i - 1) % NumKinds) + 1, i)],
           <<>>)

InitWriter == InitTools({WriterStore})

NextWriter ==
    \/ FetchRows
    \/ ExternalWriter
    \/ FetchCount
    \/ Return

SpecWriter == InitWriter /\ [][NextWriter]_vars

\* C26: in every success envelope of get_insider_transactions and
\* get_llm_calls the count of rows returned is at most the total, also when
\* another client inserts or deletes rows between the two queries.
CountAtMostTotal ==
    (pc = "done" /\ request.tool \in Paged /\ response.status = "success") =>
        Envelope.count.v <= Envelope.total.v

====
